---------------------------- MODULE Spec2Model ----------------------------
(***************************************************************************)
(* Speech moderation of the safechat platform: the toxicity detectors of   *)
(* backend/moderation/ai_detector.py (keyword lexicon, remote moderation   *)
(* client with retry and fallback, detection facade) and the violation     *)
(* escalation of backend/moderation/speech_consumer.py (warning, timeout,  *)
(* stream stop per (user, stream) key).                                    *)
(*                                                                         *)
(* Texts are sequences of one-character strings.  Scores are fixed point:  *)
(* 3000 units are 1.0, so that the division by 3.0 of the keyword score    *)
(* and the thresholds 0.3, 0.5 and 0.7 are exact.                          *)
(***************************************************************************)
EXTENDS Integers, Sequences, FiniteSets, TLC

(***************************************************************************)
(* Characters and the regular-expression classes \w, \W, \s, \b.           *)
(***************************************************************************)
LowerLetters ==
    <<"a", "b", "c", "d", "e", "f", "g", "h", "i", "j", "k", "l", "m",
      "n", "o", "p", "q", "r", "s", "t", "u", "v", "w", "x", "y", "z">>

UpperLetters ==
    <<"A", "B", "C", "D", "E", "F", "G", "H", "I", "J", "K", "L", "M",
      "N", "O", "P", "Q", "R", "S", "T", "U", "V", "W", "X", "Y", "Z">>

Digits == {"0", "1", "2", "3", "4", "5", "6", "7", "8", "9"}

Range(s) == {s[i] : i \in DOMAIN s}

Min(a, b) == IF a <= b THEN a ELSE b

\* \w of Python's re on str: letters, digits and the underscore.
WordChars == Range(LowerLetters) \cup Range(UpperLetters) \cup Digits \cup {"_"}

IsWordChar(c) == c \in WordChars

\* \s: the whitespace str.strip() removes and \s matches.
IsSpace(c) == c \in {" ", "\t", "\n", "\r"}

\* str.lower() on one character.
LowerOf ==
    [c \in Range(UpperLetters) |->
        LowerLetters[CHOOSE i \in DOMAIN UpperLetters : UpperLetters[i] = c]]

LowerChar(c) == IF c \in DOMAIN LowerOf THEN LowerOf[c] ELSE c

\* text.lower()
Lower(text) == [i \in DOMAIN text |-> LowerChar(text[i])]

\* \b between positions i and i+1 of t (0 <= i <= Len(t)): exactly one side is a word character.
WordBoundary(t, i) ==
    (i >= 1 /\ IsWordChar(t[i])) # (i < Len(t) /\ IsWordChar(t[i + 1]))

\* p occurs in t starting at position i.
OccursAt(p, t, i) ==
    /\ i >= 1
    /\ i + Len(p) - 1 <= Len(t)
    /\ \A k \in DOMAIN p : t[i + k - 1] = p[k]

\* Python's `p in t`.
Contains(t, p) == \E i \in 1..(Len(t) + 1) : OccursAt(p, t, i)

(***************************************************************************)
(* KeywordDetector                                                         *)
(*                                                                         *)
(* A result is [is_toxic, toxicity_score, categories, detected_words,      *)
(* method]; categories is the mapping in its order, as (name, score)       *)
(* pairs.                                                                  *)
(***************************************************************************)
\* The value where the code has no result.
NoResult ==
    [is_toxic |-> FALSE, toxicity_score |-> 0, categories |-> <<>>,
     detected_words |-> <<>>, method |-> "none"]

\* self.toxic_keywords, in the iteration order of the dict: high, medium, low.
toxic_keywords ==
    <<
       [severity |-> "high", word |-> "hate", chars |-> <<"h", "a", "t", "e">>],
       [severity |-> "high", word |-> "kill", chars |-> <<"k", "i", "l", "l">>],
       [severity |-> "high", word |-> "die", chars |-> <<"d", "i", "e">>],
       [severity |-> "high", word |-> "death", chars |-> <<"d", "e", "a", "t", "h">>],
       [severity |-> "high", word |-> "nazi", chars |-> <<"n", "a", "z", "i">>],
       [severity |-> "high", word |-> "terrorist", chars |-> <<"t", "e", "r", "r", "o", "r", "i", "s", "t">>],
       [severity |-> "high", word |-> "rape", chars |-> <<"r", "a", "p", "e">>],
       [severity |-> "high", word |-> "murder", chars |-> <<"m", "u", "r", "d", "e", "r">>],
       [severity |-> "high", word |-> "violence", chars |-> <<"v", "i", "o", "l", "e", "n", "c", "e">>],
       [severity |-> "high", word |-> "abuse", chars |-> <<"a", "b", "u", "s", "e">>],
       [severity |-> "high", word |-> "attack", chars |-> <<"a", "t", "t", "a", "c", "k">>],
       [severity |-> "medium", word |-> "stupid", chars |-> <<"s", "t", "u", "p", "i", "d">>],
       [severity |-> "medium", word |-> "idiot", chars |-> <<"i", "d", "i", "o", "t">>],
       [severity |-> "medium", word |-> "dumb", chars |-> <<"d", "u", "m", "b">>],
       [severity |-> "medium", word |-> "moron", chars |-> <<"m", "o", "r", "o", "n">>],
       [severity |-> "medium", word |-> "loser", chars |-> <<"l", "o", "s", "e", "r">>],
       [severity |-> "medium", word |-> "pathetic", chars |-> <<"p", "a", "t", "h", "e", "t", "i", "c">>],
       [severity |-> "medium", word |-> "trash", chars |-> <<"t", "r", "a", "s", "h">>],
       [severity |-> "medium", word |-> "garbage", chars |-> <<"g", "a", "r", "b", "a", "g", "e">>],
       [severity |-> "medium", word |-> "worthless", chars |-> <<"w", "o", "r", "t", "h", "l", "e", "s", "s">>],
       [severity |-> "medium", word |-> "useless", chars |-> <<"u", "s", "e", "l", "e", "s", "s">>],
       [severity |-> "medium", word |-> "disgusting", chars |-> <<"d", "i", "s", "g", "u", "s", "t", "i", "n", "g">>],
       [severity |-> "medium", word |-> "fuck", chars |-> <<"f", "u", "c", "k">>],
       [severity |-> "medium", word |-> "shit", chars |-> <<"s", "h", "i", "t">>],
       [severity |-> "medium", word |-> "bitch", chars |-> <<"b", "i", "t", "c", "h">>],
       [severity |-> "medium", word |-> "asshole", chars |-> <<"a", "s", "s", "h", "o", "l", "e">>],
       [severity |-> "medium", word |-> "fucking", chars |-> <<"f", "u", "c", "k", "i", "n", "g">>],
       [severity |-> "low", word |-> "shut up", chars |-> <<"s", "h", "u", "t", " ", "u", "p">>],
       [severity |-> "low", word |-> "annoying", chars |-> <<"a", "n", "n", "o", "y", "i", "n", "g">>],
       [severity |-> "low", word |-> "boring", chars |-> <<"b", "o", "r", "i", "n", "g">>],
       [severity |-> "low", word |-> "lame", chars |-> <<"l", "a", "m", "e">>],
       [severity |-> "low", word |-> "bad", chars |-> <<"b", "a", "d">>],
       [severity |-> "low", word |-> "terrible", chars |-> <<"t", "e", "r", "r", "i", "b", "l", "e">>],
       [severity |-> "low", word |-> "awful", chars |-> <<"a", "w", "f", "u", "l">>],
       [severity |-> "low", word |-> "horrible", chars |-> <<"h", "o", "r", "r", "i", "b", "l", "e">>]
    >>

\* The rest of make_fuzzy_pattern(word) from its k-th character, that character
\* read at position i of t: word[k], then \W* before each next character, then \b.
RECURSIVE FuzzyFrom(_, _, _, _)
FuzzyFrom(word, k, t, i) ==
    /\ i <= Len(t)
    /\ t[i] = word[k]
    /\ IF k = Len(word)
       THEN WordBoundary(t, i)
       ELSE \E j \in (i + 1)..Len(t) :
               /\ \A m \in (i + 1)..(j - 1) : ~IsWordChar(t[m])
               /\ FuzzyFrom(word, k + 1, t, j)

\* re.search(make_fuzzy_pattern(word), t): r"\b" + r"\W*".join(chars) + r"\b"
make_fuzzy_pattern(word, t) ==
    \E i \in 1..Len(t) : WordBoundary(t, i - 1) /\ FuzzyFrom(word, 1, t, i)

\* r'\bkys\b'
PatternKys(t) ==
    \E i \in 1..Len(t) :
        /\ OccursAt(<<"k", "y", "s">>, t, i)
        /\ WordBoundary(t, i - 1)
        /\ WordBoundary(t, i + 2)

\* r'go die'
PatternGoDie(t) == Contains(t, <<"g", "o", " ", "d", "i", "e">>)

\* r'\bfuck(?:ing)?\b'
PatternFuck(t) ==
    \E i \in 1..Len(t) :
        /\ OccursAt(<<"f", "u", "c", "k">>, t, i)
        /\ WordBoundary(t, i - 1)
        /\ \/ WordBoundary(t, i + 3)
           \/ OccursAt(<<"i", "n", "g">>, t, i + 4) /\ WordBoundary(t, i + 6)

\* r'you\s+suck'
PatternYouSuck(t) ==
    \E i \in 1..Len(t) : \E j \in (i + 4)..Len(t) :
        /\ OccursAt(<<"y", "o", "u">>, t, i)
        /\ \A m \in (i + 3)..(j - 1) : IsSpace(t[m])
        /\ OccursAt(<<"s", "u", "c", "k">>, t, j)

\* r'kill(?:\s+yourself)?': the optional group never decides a search.
PatternKill(t) == Contains(t, <<"k", "i", "l", "l">>)

\* self.harassment_patterns, in order: whether each one is found in t.
harassment_patterns(t) ==
    <<PatternKys(t), PatternGoDie(t), PatternFuck(t), PatternYouSuck(t), PatternKill(t)>>

\* The condition of the keyword loop without the fuzzy pattern.
KeywordMatchesLiteral(term, text_lower) == Contains(text_lower, term.chars)

\* The condition of the keyword loop: literal occurrence or fuzzy match.
KeywordMatches(term, text_lower) ==
    Contains(text_lower, term.chars) \/ make_fuzzy_pattern(term.chars, text_lower)

\* The number of elements of sequence s that satisfy nothing but being TRUE.
CountTrue(s) == Cardinality({i \in DOMAIN s : s[i]})

\* toxicity_score of KeywordDetector.detect from the three counters:
\* min((high * 1.0 + medium * 0.6 + low * 0.3) / 3.0, 1.0), in units of 1/3000.
KeywordScore(high, medium, low) ==
    Min((high * 3000 + medium * 1800 + low * 900) \div 3, 3000)

\* is_toxic with the threshold included: toxicity_score >= 0.3
KeywordIsToxicFromThreshold(toxicity_score) == toxicity_score >= 900

\* is_toxic = toxicity_score > 0.3
KeywordIsToxic(toxicity_score) == toxicity_score > 900

\* KeywordDetector.detect(text)
KeywordDetect(text) ==
    LET text_lower == Lower(text)
        found == SelectSeq(toxic_keywords, LAMBDA term : KeywordMatches(term, text_lower))
        hits == harassment_patterns(text_lower)
        nhits == CountTrue(hits)
        count(sev) == Len(SelectSeq(found, LAMBDA term : term.severity = sev))
        high == count("high") + nhits
        medium == count("medium")
        low == count("low")
        toxicity_score == KeywordScore(high, medium, low)
    IN  [is_toxic |-> KeywordIsToxic(toxicity_score),
         toxicity_score |-> toxicity_score,
         categories |-> <<[name |-> "high", score |-> high],
                          [name |-> "medium", score |-> medium],
                          [name |-> "low", score |-> low]>>,
         detected_words |-> [i \in 1..Len(found) |-> found[i].word]
                              \o [i \in 1..nhits |-> "harassment_pattern"],
         method |-> "keyword"]

(***************************************************************************)
(* TransformerDetector                                                     *)
(*                                                                         *)
(* A model is [loaded, raises, labels]: whether the pipeline was loaded,   *)
(* whether inference raises, and the (label, score) pairs it returns.      *)
(***************************************************************************)
\* r['label'].lower() on the labels the samples use.
LowerLabel(label) ==
    CASE label = "TOXIC" -> "toxic"
      [] label = "INSULT" -> "insult"
      [] OTHER -> label

\* scores.get('toxic', 0.0) on {r['label'].lower(): r['score'] for r in results}:
\* a later pair with the same key overwrites an earlier one.
ToxicLabelScore(labels) ==
    LET at == {i \in DOMAIN labels : LowerLabel(labels[i].label) = "toxic"}
    IN  IF at = {} THEN 0
        ELSE labels[CHOOSE i \in at : \A j \in at : j <= i].score

\* detect without the try around the inference: an exception of the pipeline leaves
\* the caller without a result.
TransformerDetectUnguarded(text, model) ==
    IF ~model.loaded THEN KeywordDetect(text)
    ELSE IF model.raises THEN NoResult
    ELSE LET toxicity_score == ToxicLabelScore(model.labels)
         IN  [is_toxic |-> toxicity_score > 1500,
              toxicity_score |-> toxicity_score,
              categories |-> [i \in DOMAIN model.labels |->
                                 [name |-> LowerLabel(model.labels[i].label),
                                  score |-> model.labels[i].score]],
              detected_words |-> <<>>,
              method |-> "transformer"]

\* TransformerDetector.detect(text)
TransformerDetect(text, model) ==
    IF ~model.loaded THEN KeywordDetect(text)
    ELSE IF model.raises THEN KeywordDetect(text)
    ELSE LET toxicity_score == ToxicLabelScore(model.labels)
         IN  [is_toxic |-> toxicity_score > 1500,
              toxicity_score |-> toxicity_score,
              categories |-> [i \in DOMAIN model.labels |->
                                 [name |-> LowerLabel(model.labels[i].label),
                                  score |-> model.labels[i].score]],
              detected_words |-> <<>>,
              method |-> "transformer"]

(***************************************************************************)
(* APIDetector                                                             *)
(*                                                                         *)
(* One remote call ends in an outcome: a response, or an exception.  A     *)
(* response is [results, shape, flagged, category_scores]: whether         *)
(* response.results has an element, which of the three shapes              *)
(* category_scores has, the provider's flagged bit, and the category       *)
(* scores in the mapping's order, each [name, score, null].  An exception  *)
(* is [type, says_429, says_too_many]: the two flags are the two substring *)
(* tests the retry condition makes on str(e).                              *)
(***************************************************************************)
\* The keys of category_scores.__dict__ the comprehension drops: k.startswith('_').
PrivateNames == {"_request_id"}

NoError == [type |-> "none", says_429 |-> FALSE, says_too_many |-> FALSE]

IndexError == [type |-> "IndexError", says_429 |-> FALSE, says_too_many |-> FALSE]

TypeError == [type |-> "TypeError", says_429 |-> FALSE, says_too_many |-> FALSE]

\* The scores dict of _process_results, by the shape of result.category_scores.
CategoryScoresDict(category_scores, shape) ==
    IF shape = "attrs"
    THEN SelectSeq(category_scores, LAMBDA e : e.name \notin PrivateNames)
    ELSE category_scores

\* max(scores.values()) if scores else 0.0
MaxScore(scores) ==
    IF scores = <<>> THEN 0
    ELSE LET vals == {scores[i].score : i \in DOMAIN scores}
         IN  CHOOSE v \in vals : \A w \in vals : w <= v

\* The comprehension with the threshold included: score >= threshold
CategoriesFrom(scores, threshold) ==
    LET above == SelectSeq(scores, LAMBDA e : e.score >= threshold)
    IN  [i \in DOMAIN above |-> above[i].name]

\* [cat for cat, score in scores.items() if score > threshold]
CategoriesAbove(scores, threshold) ==
    LET above == SelectSeq(scores, LAMBDA e : e.score > threshold)
    IN  [i \in DOMAIN above |-> above[i].name]

\* _process_results with one threshold: the words of a flagged text are those above 0.7 too.
NormalizedResultOneThreshold(flagged, scores) ==
    LET toxicity_score == MaxScore(scores)
        high_score_categories == CategoriesAbove(scores, 2100)
    IN  IF flagged
        THEN [is_toxic |-> TRUE, toxicity_score |-> toxicity_score, categories |-> scores,
              detected_words |-> high_score_categories, method |-> "openai_moderation"]
        ELSE IF high_score_categories # <<>>
        THEN [is_toxic |-> TRUE, toxicity_score |-> toxicity_score, categories |-> scores,
              detected_words |-> high_score_categories, method |-> "openai_moderation"]
        ELSE [is_toxic |-> FALSE, toxicity_score |-> toxicity_score, categories |-> scores,
              detected_words |-> <<>>, method |-> "openai_moderation"]

\* The ClassificationResult of _process_results for a flagged bit and scores.
NormalizedResult(flagged, scores) ==
    LET toxicity_score == MaxScore(scores)
        high_score_categories == CategoriesAbove(scores, 2100)
    IN  IF flagged
        THEN [is_toxic |-> TRUE, toxicity_score |-> toxicity_score, categories |-> scores,
              detected_words |-> CategoriesAbove(scores, 1500), method |-> "openai_moderation"]
        ELSE IF high_score_categories # <<>>
        THEN [is_toxic |-> TRUE, toxicity_score |-> toxicity_score, categories |-> scores,
              detected_words |-> high_score_categories, method |-> "openai_moderation"]
        ELSE [is_toxic |-> FALSE, toxicity_score |-> toxicity_score, categories |-> scores,
              detected_words |-> <<>>, method |-> "openai_moderation"]

\* response.results[0] followed by APIDetector._process_results(result, text): the
\* result, or the exception raised (no result; a score that is None in a comparison).
ProcessResults(response, text) ==
    IF ~response.results
    THEN [ok |-> FALSE, value |-> NoResult, error |-> IndexError]
    ELSE LET scores == CategoryScoresDict(response.category_scores, response.shape)
         IN  IF \E i \in DOMAIN scores : scores[i].null
             THEN [ok |-> FALSE, value |-> NoResult, error |-> TypeError]
             ELSE [ok |-> TRUE,
                   value |-> NormalizedResult(response.flagged,
                                [i \in DOMAIN scores |->
                                    [name |-> scores[i].name, score |-> scores[i].score]]),
                   error |-> NoError]

\* max_attempts = 3
max_attempts == 3

\* backoff = 1
initial_backoff == 1

\* "too many requests" in msg.lower() or "429" in msg
IsRateLimited(e) == e.says_too_many \/ e.says_429

\* The try block of one attempt: the call, then the normalization of its response.
Attempt(outcome, text) ==
    IF outcome.kind = "response"
    THEN ProcessResults(outcome.response, text)
    ELSE [ok |-> FALSE, value |-> NoResult, error |-> outcome.error]

\* The sync loop with `backoff *= 2` left out: every wait lasts the first backoff.
RECURSIVE SyncLoopConstantBackoff(_, _, _, _, _)
SyncLoopConstantBackoff(text, script, attempt, backoff, trace) ==
    LET called == Append(trace, [op |-> "call", arg |-> attempt])
        got == Attempt(script[attempt], text)
    IN  IF got.ok
        THEN [result |-> got.value, trace |-> called]
        ELSE IF attempt < max_attempts /\ IsRateLimited(got.error)
        THEN SyncLoopConstantBackoff(text, script, attempt + 1, backoff,
                                     Append(called, [op |-> "sleep", arg |-> backoff]))
        ELSE [result |-> KeywordDetect(text), trace |-> called]

\* The loop of APIDetector._openai_moderation_sync from attempt `attempt` on; script[k]
\* is the outcome of the k-th remote call.  Returns the result and the trace of
\* remote calls and time.sleep calls made.
RECURSIVE SyncLoop(_, _, _, _, _)
SyncLoop(text, script, attempt, backoff, trace) ==
    LET called == Append(trace, [op |-> "call", arg |-> attempt])
        got == Attempt(script[attempt], text)
    IN  IF got.ok
        THEN [result |-> got.value, trace |-> called]
        ELSE IF attempt < max_attempts /\ IsRateLimited(got.error)
        THEN SyncLoop(text, script, attempt + 1, backoff * 2,
                      Append(called, [op |-> "sleep", arg |-> backoff]))
        ELSE [result |-> KeywordDetect(text), trace |-> called]

\* APIDetector._openai_moderation_sync(text)
OpenaiModerationSync(text, script) == SyncLoop(text, script, 1, initial_backoff, <<>>)

\* The async loop with the keyword fallback left out of the handler: a failure
\* that is not retried leaves the caller without a result.
RECURSIVE AsyncLoopNoFallback(_, _, _, _, _)
AsyncLoopNoFallback(text, script, attempt, backoff, trace) ==
    LET called == Append(trace, [op |-> "call", arg |-> attempt])
        got == Attempt(script[attempt], text)
    IN  IF got.ok
        THEN [result |-> got.value, trace |-> called]
        ELSE IF attempt < max_attempts /\ IsRateLimited(got.error)
        THEN AsyncLoopNoFallback(text, script, attempt + 1, backoff * 2,
                                 Append(called, [op |-> "sleep", arg |-> backoff]))
        ELSE [result |-> NoResult, trace |-> called]

\* The async loop with a handler that has drifted from the sync one: it retries
\* after any failure, rate limit or not.
RECURSIVE AsyncLoopRetryingAnyError(_, _, _, _, _)
AsyncLoopRetryingAnyError(text, script, attempt, backoff, trace) ==
    LET called == Append(trace, [op |-> "call", arg |-> attempt])
        got == Attempt(script[attempt], text)
    IN  IF got.ok
        THEN [result |-> got.value, trace |-> called]
        ELSE IF attempt < max_attempts
        THEN AsyncLoopRetryingAnyError(text, script, attempt + 1, backoff * 2,
                                       Append(called, [op |-> "sleep", arg |-> backoff]))
        ELSE [result |-> KeywordDetect(text), trace |-> called]

\* The loop of APIDetector._openai_moderation_async; its waits are asyncio.sleep.
RECURSIVE AsyncLoop(_, _, _, _, _)
AsyncLoop(text, script, attempt, backoff, trace) ==
    LET called == Append(trace, [op |-> "call", arg |-> attempt])
        got == Attempt(script[attempt], text)
    IN  IF got.ok
        THEN [result |-> got.value, trace |-> called]
        ELSE IF attempt < max_attempts /\ IsRateLimited(got.error)
        THEN AsyncLoop(text, script, attempt + 1, backoff * 2,
                       Append(called, [op |-> "sleep", arg |-> backoff]))
        ELSE [result |-> KeywordDetect(text), trace |-> called]

\* APIDetector._openai_moderation_async(text)
OpenaiModerationAsync(text, script) == AsyncLoop(text, script, 1, initial_backoff, <<>>)

\* `self.api_key is None` in place of `not self.api_key`: an empty key is a key.
NoApiKeyIsNone(api_key) == api_key = "<unset>"

\* `not self.api_key`: os.getenv gave None, or the variable is empty.
NoApiKey(api_key) == api_key \in {"<unset>", ""}

\* APIDetector.detect(text)
ApiDetect(api_key, text, script) ==
    IF NoApiKey(api_key)
    THEN [result |-> KeywordDetect(text), trace |-> <<>>]
    ELSE OpenaiModerationSync(text, script)

\* APIDetector.detect_async(text)
ApiDetectAsync(api_key, text, script) ==
    IF NoApiKey(api_key)
    THEN [result |-> KeywordDetect(text), trace |-> <<>>]
    ELSE OpenaiModerationAsync(text, script)

(***************************************************************************)
(* ToxicityDetector: the facade.  env is [api_key, script, model]: the     *)
(* credential, the outcomes of the remote calls, the local model.          *)
(***************************************************************************)
\* ToxicityDetector.analyze(text)
Analyze(method, text, env) ==
    IF method = "keyword" THEN [result |-> KeywordDetect(text), trace |-> <<>>]
    ELSE IF method = "transformer"
    THEN [result |-> TransformerDetect(text, env.model), trace |-> <<>>]
    ELSE IF method = "api" THEN ApiDetect(env.api_key, text, env.script)
    ELSE [result |-> KeywordDetect(text), trace |-> <<>>]

\* ToxicityDetector.analyze_async(text)
AnalyzeAsync(method, text, env) ==
    IF method = "keyword" THEN [result |-> KeywordDetect(text), trace |-> <<>>]
    ELSE IF method = "transformer"
    THEN [result |-> TransformerDetect(text, env.model), trace |-> <<>>]
    ELSE IF method = "api" THEN ApiDetectAsync(env.api_key, text, env.script)
    ELSE [result |-> KeywordDetect(text), trace |-> <<>>]

\* A constructor whose default is 'keyword'.
ToxicityDetectorKeywordDefault(given) == IF given = "<omitted>" THEN "keyword" ELSE given

\* ToxicityDetector.__init__(self, method='api'): the method the facade keeps, given
\* the argument of the constructor ("<omitted>" where the caller passes none).
ToxicityDetector(given) == IF given = "<omitted>" THEN "api" ELSE given

\* os.getenv('MODERATION_METHOD', 'api'), given the value of the variable.
MODERATION_METHOD(value) == IF value = "<unset>" THEN "api" ELSE value

(***************************************************************************)
(* Fact check.  The outcome of the GET is an exception of the transport or *)
(* a response [status, json, shape, claims]; a claim is [claimReview], a   *)
(* review [textualRating, publisher], a rating [kind, chars] with kind     *)
(* "string", "missing" (no such key) or "null"; publisher is the name of   *)
(* the publisher, "<missing>" where the publisher or its name is absent.   *)
(* A verdict is [raised, correct, reason]; a reason is [rated, rating,     *)
(* publisher], the empty string being the reason that is not rated.        *)
(***************************************************************************)
\* ""
NoReason == [rated |-> FALSE, rating |-> <<>>, publisher |-> ""]

\* f"Fact Check: This claim was rated '{rating}' by {publisher}."
Reason(rating, publisher) == [rated |-> TRUE, rating |-> rating, publisher |-> publisher]

\* return True, ""
Correct == [raised |-> FALSE, correct |-> TRUE, reason |-> NoReason]

\* An exception leaves the try block.
Raises == [raised |-> TRUE, correct |-> FALSE, reason |-> NoReason]

\* false_keywords = ['false', 'incorrect', 'misleading', 'fake', 'rumor', 'untrue', 'error']
false_keywords ==
    << <<"f", "a", "l", "s", "e">>,
       <<"i", "n", "c", "o", "r", "r", "e", "c", "t">>,
       <<"m", "i", "s", "l", "e", "a", "d", "i", "n", "g">>,
       <<"f", "a", "k", "e">>,
       <<"r", "u", "m", "o", "r">>,
       <<"u", "n", "t", "r", "u", "e">>,
       <<"e", "r", "r", "o", "r">> >>

\* any(k in rating for k in false_keywords)
AnyFalseKeyword(rating) == \E k \in DOMAIN false_keywords : Contains(rating, false_keywords[k])

\* The loop `for claim in claims` read every review of a claim: a claim counts
\* as soon as one of its reviews has a rating of the list.
RECURSIVE ReviewClaimsEveryReview(_, _)
ReviewClaimsEveryReview(claims, i) ==
    IF i > Len(claims) THEN Correct
    ELSE LET claim_review == claims[i].claimReview
             strings == {j \in DOMAIN claim_review : claim_review[j].textualRating.kind = "string"}
             hits == {j \in strings :
                         AnyFalseKeyword(Lower(claim_review[j].textualRating.chars))}
         IN  IF hits = {} THEN ReviewClaimsEveryReview(claims, i + 1)
             ELSE LET j == CHOOSE h \in hits : \A g \in hits : h <= g
                  IN  [raised |-> FALSE, correct |-> FALSE,
                       reason |-> Reason(Lower(claim_review[j].textualRating.chars),
                                         claim_review[j].publisher)]

\* The loop `for claim in claims` from claims[i] on (claims[1] is Python's claims[0]).
RECURSIVE ReviewClaims(_, _)
ReviewClaims(claims, i) ==
    IF i > Len(claims) THEN Correct
    ELSE LET claim_review == claims[i].claimReview
         IN  IF claim_review = <<>> THEN ReviewClaims(claims, i + 1)
             ELSE LET first == claim_review[1]
                  IN  IF first.textualRating.kind = "null"
                      THEN Raises      \* None has no lower()
                      ELSE LET rating == IF first.textualRating.kind = "missing" THEN <<>>
                                         ELSE Lower(first.textualRating.chars)
                               publisher == IF first.publisher = "<missing>" THEN "Unknown"
                                            ELSE first.publisher
                           IN  IF AnyFalseKeyword(rating)
                               THEN [raised |-> FALSE, correct |-> FALSE,
                                     reason |-> Reason(rating, publisher)]
                               ELSE ReviewClaims(claims, i + 1)

\* The try block: the GET, raise_for_status(), response.json(), the claims.
FactCheckTry(outcome) ==
    IF outcome.kind = "error" THEN Raises
    ELSE IF outcome.status >= 400 THEN Raises
    ELSE IF ~outcome.json THEN Raises
    ELSE IF outcome.shape # "object" THEN Raises      \* a list has no get()
    ELSE IF outcome.claims = <<>> THEN Correct
    ELSE ReviewClaims(outcome.claims, 1)

\* A handler that lets the exception go on to the caller.
FactCheckReraise(got) == got

\* except Exception: return True, ""
FactCheckExcept(got) == IF got.raised THEN Correct ELSE got

\* `not api_key` on os.getenv("GOOGLE_FACT_CHECK_API_KEY")
NoFactCheckKey(api_key) == api_key \in {"<unset>", ""}

\* is_factually_correct_async(text): the verdict and the trace of the requests sent.
is_factually_correct_async(api_key, text, outcome) ==
    IF NoFactCheckKey(api_key) THEN [verdict |-> Correct, trace |-> <<>>]
    ELSE [verdict |-> FactCheckExcept(FactCheckTry(outcome)),
          trace |-> <<[op |-> "call", arg |-> 1]>>]

\* is_factually_correct(text): the same steps on requests.get.
is_factually_correct(api_key, text, outcome) ==
    IF NoFactCheckKey(api_key) THEN [verdict |-> Correct, trace |-> <<>>]
    ELSE [verdict |-> FactCheckExcept(FactCheckTry(outcome)),
          trace |-> <<[op |-> "call", arg |-> 1]>>]

(***************************************************************************)
(* Inputs: sample texts, remote responses, exceptions, local models.       *)
(***************************************************************************)
TextEmpty == <<>>

TextHello == <<"h", "e", "l", "l", "o">>

TextKill == <<"k", "i", "l", "l">>

TextKillDotted == <<"k", ".", "i", ".", "l", ".", "l">>

TextBad == <<"b", "a", "d">>

TextBlank == <<" ", " ">>

\* one medium term and one low term: a score of exactly 0.3
TextDumbBad == <<"d", "u", "m", "b", " ", "b", "a", "d">>

\* three low terms: a score of exactly 0.3
TextBadLameAwful ==
    <<"b", "a", "d", " ", "l", "a", "m", "e", " ", "a", "w", "f", "u", "l">>

\* three high terms and a harassment pattern: a weighted sum above 3.0
TextHateKillDie ==
    <<"H", "a", "t", "e", " ", "k", "i", "l", "l", " ", "d", "i", "e">>

Texts ==
    {TextEmpty, TextHello, TextKill, TextKillDotted, TextBad, TextDumbBad, TextBadLameAwful,
     TextHateKillDie}

Score(name, score) == [name |-> name, score |-> score, null |-> FALSE]

\* flagged by the provider; an attribute object that also carries a private attribute
ResponseFlagged ==
    [results |-> TRUE, shape |-> "attrs", flagged |-> TRUE,
     category_scores |-> <<Score("harassment", 2700), Score("_request_id", 2999),
                           Score("violence", 1800)>>]

\* not flagged, one score above 0.7
ResponseHighScore ==
    [results |-> TRUE, shape |-> "mapping", flagged |-> FALSE,
     category_scores |-> <<Score("harassment", 600), Score("violence", 2400)>>]

\* not flagged, scores of exactly 0.7 and 0.5
ResponseBoundary ==
    [results |-> TRUE, shape |-> "mapping", flagged |-> FALSE,
     category_scores |-> <<Score("harassment", 2100), Score("violence", 1500)>>]

\* not flagged, no category at all
ResponseNoCategories ==
    [results |-> TRUE, shape |-> "model_dump", flagged |-> FALSE, category_scores |-> <<>>]

\* response.results is empty
ResponseNoResults ==
    [results |-> FALSE, shape |-> "mapping", flagged |-> FALSE, category_scores |-> <<>>]

\* a category score is None
ResponseNullScore ==
    [results |-> TRUE, shape |-> "attrs", flagged |-> TRUE,
     category_scores |-> <<Score("harassment", 2700),
                           [name |-> "violence", score |-> 0, null |-> TRUE]>>]

\* not flagged, a score of 1.2: outside the range the provider documents
ResponseOutOfRange ==
    [results |-> TRUE, shape |-> "mapping", flagged |-> FALSE,
     category_scores |-> <<Score("harassment", 3600), Score("violence", 300)>>]

Responses ==
    {ResponseFlagged, ResponseHighScore, ResponseBoundary, ResponseNoCategories,
     ResponseNoResults, ResponseNullScore, ResponseOutOfRange}

\* "Error code: 429 - ..."
RateLimitError == [type |-> "RateLimitError", says_429 |-> TRUE, says_too_many |-> FALSE]

\* "Too Many Requests"
TooManyRequestsError == [type |-> "APIStatusError", says_429 |-> FALSE, says_too_many |-> TRUE]

\* "Connection error."
ConnectionError == [type |-> "APIConnectionError", says_429 |-> FALSE, says_too_many |-> FALSE]

\* "Error code: 401 - Incorrect API key provided: sk-...4291"
AuthenticationErrorKey429 == [type |-> "AuthenticationError", says_429 |-> TRUE, says_too_many |-> FALSE]

Errors == {RateLimitError, TooManyRequestsError, ConnectionError, AuthenticationErrorKey429}

Responded(r) == [kind |-> "response", response |-> r, error |-> NoError]

Raised(e) == [kind |-> "error", response |-> ResponseNoResults, error |-> e]

Outcomes == {Responded(r) : r \in Responses} \cup {Raised(e) : e \in Errors}

\* The outcomes of the remote calls a detection may make, first to last.
Scripts == [1..max_attempts -> Outcomes]

ApiKeys == {"<unset>", "", "sk-key"}

Methods == {"api", "keyword", "transformer", ""}

Label(label, score) == [label |-> label, score |-> score]

ModelUnloaded == [loaded |-> FALSE, raises |-> FALSE, labels |-> <<>>]

ModelRaises == [loaded |-> TRUE, raises |-> TRUE, labels |-> <<>>]

ModelToxic == [loaded |-> TRUE, raises |-> FALSE, labels |-> <<Label("toxic", 2700), Label("insult", 600)>>]

ModelBoundary == [loaded |-> TRUE, raises |-> FALSE, labels |-> <<Label("insult", 2700), Label("TOXIC", 1500)>>]

ModelNoToxicLabel == [loaded |-> TRUE, raises |-> FALSE, labels |-> <<Label("insult", 2700)>>]

Models == {ModelUnloaded, ModelRaises, ModelToxic, ModelBoundary, ModelNoToxicLabel}

\* The environments of one detection, by the method that reads them.
Envs(method) ==
    IF method = "api"
    THEN {[api_key |-> "sk-key", script |-> sc, model |-> ModelUnloaded] : sc \in Scripts}
         \cup {[api_key |-> k, script |-> [i \in 1..max_attempts |-> Raised(ConnectionError)],
                model |-> ModelUnloaded] : k \in ApiKeys}
    ELSE IF method = "transformer"
    THEN {[api_key |-> "<unset>", script |-> [i \in 1..max_attempts |-> Raised(ConnectionError)],
           model |-> m] : m \in Models}
    ELSE {[api_key |-> "<unset>", script |-> [i \in 1..max_attempts |-> Raised(ConnectionError)],
           model |-> ModelUnloaded]}

(***************************************************************************)
(* State                                                                   *)
(***************************************************************************)
VARIABLES
    now,                \* timezone.now(), in seconds
    streams,            \* chat.Stream rows: stream id -> [status, ended_at]
    speech_violations,  \* SpeechViolation rows of each (user, stream), oldest first
    stream_timeouts,    \* StreamTimeout rows of each (user, stream), oldest first
    consumer,           \* per connection: where its receive() is, and its locals
    sent,               \* per connection: what self.send delivered for its latest event
    call,               \* the latest direct call of the detection facade
    thread_sensitive    \* the mode in which @sync_to_async runs run_moderation

vars == <<now, streams, speech_violations, stream_timeouts, consumer, sent, call, thread_sensitive>>

engine_vars ==
    <<now, streams, speech_violations, stream_timeouts, consumer, sent, thread_sensitive>>

\* Bounds of the model.
MaxViolations == 4

MaxTime == 60

TickStep == 30

UserIds == {"u1", "u2"}

StreamIds == {"s1", "s2"}

Conns == {"c1", "c2"}

Keys == UserIds \X StreamIds

\* connect(): the stream and the user named in the URL of each connection.
scope ==
    [c \in Conns |->
        IF c = "c1" THEN [stream_id |-> "s1", user_id |-> "u1"]
        ELSE [stream_id |-> "s1", user_id |-> "u2"]]

\* The channels that connect() added to the group speech_moderation_<stream_id>.
room_group(stream_id) == {c \in Conns : scope[c].stream_id = stream_id}

\* timeout_seconds = 60
timeout_seconds == 60

(***************************************************************************)
(* SpeechModerationConsumer                                                *)
(***************************************************************************)
\* str.strip()
Strip(text) ==
    LET kept == {i \in DOMAIN text : ~IsSpace(text[i])}
    IN  IF kept = {} THEN <<>>
        ELSE SubSeq(text, CHOOSE i \in kept : \A j \in kept : i <= j,
                          CHOOSE i \in kept : \A j \in kept : j <= i)

\* A message handed to self.send.
Message(type, warning_number, timeout_duration) ==
    [type |-> type, warning_number |-> warning_number, timeout_duration |-> timeout_duration]

\* The locals of receive() while no event is being processed.
Idle ==
    [pc |-> "idle", message_type |-> "", user_id |-> "", stream_id |-> "", transcript |-> <<>>,
     result |-> NoResult, new_count |-> 0, attempt |-> 0]

\* The count with the stream filter left out: every row of the user is counted.
get_violation_count_of_user(user_id, stream_id) ==
    LET RECURSIVE Sum(_)
        Sum(S) == IF S = {} THEN 0
                  ELSE LET st == CHOOSE x \in S : TRUE
                       IN  Len(speech_violations[<<user_id, st>>]) + Sum(S \ {st})
    IN  Sum(StreamIds)

\* The count with the user filter left out: every row of the stream is counted.
get_violation_count_of_stream(user_id, stream_id) ==
    LET users == {u \in UserIds : <<u, stream_id>> \in Keys}
        RECURSIVE Sum(_)
        Sum(S) == IF S = {} THEN 0
                  ELSE LET u == CHOOSE x \in S : TRUE
                       IN  Len(speech_violations[<<u, stream_id>>]) + Sum(S \ {u})
    IN  Sum(users)

\* get_violation_count(user_id, stream_id)
get_violation_count(user_id, stream_id) == Len(speech_violations[<<user_id, stream_id>>])

\* The check without the filter expires_at__gt: an active row gates for ever.
check_timeout_without_expiry(user_id, stream_id) ==
    \E i \in DOMAIN stream_timeouts[<<user_id, stream_id>>] :
        stream_timeouts[<<user_id, stream_id>>][i].is_active

\* The check with the comparison turned round: expires_at__lt in place of expires_at__gt.
check_timeout_expired(user_id, stream_id) ==
    \E i \in DOMAIN stream_timeouts[<<user_id, stream_id>>] :
        LET row == stream_timeouts[<<user_id, stream_id>>][i]
        IN  row.is_active /\ row.expires_at < now

\* check_timeout(user_id, stream_id)
check_timeout(user_id, stream_id) ==
    \E i \in DOMAIN stream_timeouts[<<user_id, stream_id>>] :
        LET row == stream_timeouts[<<user_id, stream_id>>][i]
        IN  row.is_active /\ row.expires_at > now

\* The type taken from the count of prior rows: the thresholds are met one row early.
violation_type_from_prior(violation_count) ==
    IF violation_count = 1 THEN "timeout"
    ELSE IF violation_count >= 2 THEN "stream_stop"
    ELSE "warning"

\* violation_type of log_violation, from violation_count
violation_type(violation_count) ==
    IF violation_count = 2 THEN "timeout"
    ELSE IF violation_count >= 3 THEN "stream_stop"
    ELSE "warning"

\* The row log_violation creates.
ViolationRow(transcript, result, violation_count) ==
    [transcript |-> transcript,
     toxicity_score |-> result.toxicity_score,
     detected_words |-> result.detected_words,
     violation_type |-> violation_type(violation_count)]

\* The row with the duration not added to the time of issue.
TimeoutRowExpiringAtOnce(duration_seconds) ==
    [duration_seconds |-> duration_seconds,
     started_at |-> now,
     expires_at |-> now,
     is_active |-> TRUE]

\* The row issue_timeout creates.
TimeoutRow(duration_seconds) ==
    [duration_seconds |-> duration_seconds,
     started_at |-> now,
     expires_at |-> now + duration_seconds,
     is_active |-> TRUE]

\* The events a client may send, as json.loads reads them: text that is no JSON,
\* or an object with a type, a transcript and the ids of a user and a stream.
Payloads ==
    {[well_formed |-> FALSE, type |-> "", transcript |-> <<>>, user_id |-> "", stream_id |-> ""]}
    \cup
    {[well_formed |-> TRUE, type |-> t, transcript |-> x, user_id |-> u, stream_id |-> st] :
        t \in {"speech_transcript", "ping"},
        x \in {TextKill, TextBlank, TextEmpty}, u \in UserIds, st \in StreamIds}

\* What run_moderation may meet: MODERATION_METHOD and the detection's environment.
ConstantScript(outcome) == [i \in 1..max_attempts |-> outcome]

ModerationRuns ==
    {[MODERATION_METHOD |-> v,
      env |-> [api_key |-> "sk-key", script |-> ConstantScript(o), model |-> ModelUnloaded]] :
        v \in {"<unset>", "api"},
        o \in {Responded(ResponseFlagged), Responded(ResponseBoundary)}}


\* run_moderation(text)
run_moderation(text, run) ==
    Analyze(ToxicityDetector(MODERATION_METHOD(run.MODERATION_METHOD)), text, run.env).result

\* receive() with a handler that only prints: the client is told nothing.
ReceiveMalformedUnanswered(c, payload) ==
    /\ ~payload.well_formed
    /\ sent' = [sent EXCEPT ![c] = <<>>]
    /\ consumer' = [consumer EXCEPT ![c] =
                       [Idle EXCEPT !.pc = "done", !.message_type = "<JSONDecodeError>"]]
    /\ UNCHANGED <<now, streams, speech_violations, stream_timeouts>>

\* receive(): json.loads fails, and the handler of the outer try sends the error.
ReceiveMalformed(c, payload) ==
    /\ ~payload.well_formed
    /\ sent' = [sent EXCEPT ![c] = <<Message("error", 0, 0)>>]
    /\ consumer' = [consumer EXCEPT ![c] =
                       [Idle EXCEPT !.pc = "done", !.message_type = "<JSONDecodeError>"]]
    /\ UNCHANGED <<now, streams, speech_violations, stream_timeouts>>

\* receive() answering the events it has nothing to do for with speech_clean.
ReceiveIgnoredAnswered(c, payload) ==
    /\ payload.well_formed
    /\ payload.type # "speech_transcript" \/ Strip(payload.transcript) = <<>>
    /\ sent' = [sent EXCEPT ![c] = <<Message("speech_clean", 0, 0)>>]
    /\ consumer' = [consumer EXCEPT ![c] =
                       [Idle EXCEPT !.pc = "done", !.message_type = payload.type]]
    /\ UNCHANGED <<now, streams, speech_violations, stream_timeouts>>

\* receive(): the type is not speech_transcript, or the stripped transcript is empty.
ReceiveIgnored(c, payload) ==
    /\ payload.well_formed
    /\ payload.type # "speech_transcript" \/ Strip(payload.transcript) = <<>>
    /\ sent' = [sent EXCEPT ![c] = <<>>]
    /\ consumer' = [consumer EXCEPT ![c] =
                       [Idle EXCEPT !.pc = "done", !.message_type = payload.type]]
    /\ UNCHANGED <<now, streams, speech_violations, stream_timeouts>>

\* receive(): check_timeout finds the user timed out.
ReceiveTimedOut(c, payload) ==
    /\ payload.well_formed
    /\ payload.type = "speech_transcript"
    /\ Strip(payload.transcript) # <<>>
    /\ check_timeout(payload.user_id, payload.stream_id)
    /\ sent' = [sent EXCEPT ![c] = <<Message("timeout_active", 0, 0)>>]
    /\ consumer' = [consumer EXCEPT ![c] =
                       [Idle EXCEPT !.pc = "done",
                                    !.message_type = payload.type,
                                    !.user_id = payload.user_id,
                                    !.stream_id = payload.stream_id,
                                    !.transcript = Strip(payload.transcript)]]
    /\ UNCHANGED <<now, streams, speech_violations, stream_timeouts>>

\* receive(): the transcript passes check_timeout and goes to run_moderation.
ReceiveTranscript(c, payload) ==
    /\ payload.well_formed
    /\ payload.type = "speech_transcript"
    /\ Strip(payload.transcript) # <<>>
    /\ ~check_timeout(payload.user_id, payload.stream_id)
    /\ consumer' = [consumer EXCEPT ![c] =
                       [Idle EXCEPT !.pc = "moderate",
                                    !.message_type = payload.type,
                                    !.user_id = payload.user_id,
                                    !.stream_id = payload.stream_id,
                                    !.transcript = Strip(payload.transcript)]]
    /\ sent' = [sent EXCEPT ![c] = <<>>]
    /\ UNCHANGED <<now, streams, speech_violations, stream_timeouts>>

\* The SpeechViolation rows there are, and the events being processed.
Logged == Cardinality({<<k, i>> \in Keys \X (1..MaxViolations) : i <= Len(speech_violations[k])})

InFlight == Cardinality({c \in Conns : consumer[c].pc \notin {"idle", "done"}})

\* receive(text_data) up to its first await that can let another event in.
Receive(c) ==
    /\ consumer[c].pc = "idle"
    /\ Logged + InFlight < MaxViolations
    /\ \E payload \in Payloads :
          \/ ReceiveMalformed(c, payload)
          \/ ReceiveIgnored(c, payload)
          \/ ReceiveTimedOut(c, payload)
          \/ ReceiveTranscript(c, payload)
    /\ UNCHANGED <<call, thread_sensitive>>

\* receive() with the violation path taken whatever the classification says.
ModerateCountsClean(c) ==
    /\ consumer[c].pc = "moderate"
    /\ \E run \in ModerationRuns :
          LET result == run_moderation(consumer[c].transcript, run)
          IN  consumer' = [consumer EXCEPT ![c].pc = "count", ![c].result = result]
    /\ UNCHANGED <<now, streams, speech_violations, stream_timeouts, call, sent, thread_sensitive>>

\* result = await run_moderation(transcript), and the branch on result.get('is_toxic').
Moderate(c) ==
    /\ consumer[c].pc = "moderate"
    /\ \E run \in ModerationRuns :
          LET result == run_moderation(consumer[c].transcript, run)
          IN  IF result.is_toxic
              THEN /\ consumer' = [consumer EXCEPT ![c].pc = "count", ![c].result = result]
                   /\ UNCHANGED sent
              ELSE /\ consumer' = [consumer EXCEPT ![c].pc = "done", ![c].result = result]
                   /\ sent' = [sent EXCEPT ![c] = Append(@, Message("speech_clean", 0, 0))]
    /\ UNCHANGED <<now, streams, speech_violations, stream_timeouts, call, thread_sensitive>>

\* current_count = await self.get_violation_count(...); new_count; the speech_toxic send.
CountViolations(c) ==
    /\ consumer[c].pc = "count"
    /\ LET new_count == get_violation_count(consumer[c].user_id, consumer[c].stream_id) + 1
       IN  /\ consumer' = [consumer EXCEPT ![c].pc = "act", ![c].new_count = new_count]
           /\ sent' = [sent EXCEPT ![c] = Append(@, Message("speech_toxic", new_count, 0))]
    /\ UNCHANGED <<now, streams, speech_violations, stream_timeouts, call, thread_sensitive>>

\* A timeout that mutes the stream: a row for every user of the stream.
issue_timeout_for_stream(user_id, stream_id, duration_seconds) ==
    stream_timeouts' = [k \in Keys |->
                           IF k[2] = stream_id
                           THEN Append(stream_timeouts[k], TimeoutRow(duration_seconds))
                           ELSE stream_timeouts[k]]

\* issue_timeout(user_id, stream_id, duration_seconds)
issue_timeout(user_id, stream_id, duration_seconds) ==
    stream_timeouts' = [stream_timeouts EXCEPT ![<<user_id, stream_id>>] =
                           Append(@, TimeoutRow(duration_seconds))]

\* Stream.objects.get(id=stream_id) finds no row: Stream.DoesNotExist.
NoStream == [status |-> "<DoesNotExist>", ended_at |-> <<>>]

\* stop_stream without `stream.ended_at = timezone.now()`.
stop_stream_unstamped(stream_id) ==
    streams' = [streams EXCEPT ![stream_id].status = "ended"]

\* stop_stream(stream_id)
stop_stream(stream_id) ==
    streams' = IF streams[stream_id] = NoStream
               THEN streams      \* except Stream.DoesNotExist: pass
               ELSE [streams EXCEPT ![stream_id] = [status |-> "ended", ended_at |-> <<now>>]]

\* The branch on new_count with its sends put off until the row is written: the
\* timeout is issued and the stream stopped, the client is told nothing yet.
ActBeforeNotifying(c) ==
    /\ consumer[c].pc = "act"
    /\ LET new_count == consumer[c].new_count
       IN  \/ /\ new_count = 1
              /\ UNCHANGED <<stream_timeouts, streams>>
           \/ /\ new_count = 2
              /\ issue_timeout(consumer[c].user_id, consumer[c].stream_id, timeout_seconds)
              /\ UNCHANGED streams
           \/ /\ new_count >= 3
              /\ stop_stream(consumer[c].stream_id)
              /\ UNCHANGED stream_timeouts
    /\ consumer' = [consumer EXCEPT ![c].pc = "log"]
    /\ UNCHANGED <<now, speech_violations, sent, call, thread_sensitive>>

\* The branch on new_count: the warning, the timeout, or the stream stop.
Act(c) ==
    /\ consumer[c].pc = "act"
    /\ LET new_count == consumer[c].new_count
       IN  \/ /\ new_count = 1
              /\ sent' = [sent EXCEPT ![c] = Append(@, Message("speech_warning", new_count, 0))]
              /\ UNCHANGED <<stream_timeouts, streams>>
           \/ /\ new_count = 2
              /\ issue_timeout(consumer[c].user_id, consumer[c].stream_id, timeout_seconds)
              /\ sent' = [sent EXCEPT ![c] =
                             Append(@, Message("speech_timeout", new_count, timeout_seconds))]
              /\ UNCHANGED streams
           \/ /\ new_count >= 3
              /\ stop_stream(consumer[c].stream_id)
              /\ sent' = [sent EXCEPT ![c] = Append(@, Message("stream_stopped", 0, 0))]
              /\ UNCHANGED stream_timeouts
    /\ consumer' = [consumer EXCEPT ![c].pc = "log"]
    /\ UNCHANGED <<now, speech_violations, call, thread_sensitive>>

\* log_violation with a suppression of duplicates: a transcript the key already
\* has a row for is not stored again.
LogViolationOncePerTranscript(c) ==
    /\ consumer[c].pc = "log"
    /\ LET k == <<consumer[c].user_id, consumer[c].stream_id>>
           known == \E i \in DOMAIN speech_violations[k] :
                        speech_violations[k][i].transcript = consumer[c].transcript
       IN  speech_violations' =
              IF known THEN speech_violations
              ELSE [speech_violations EXCEPT ![k] =
                      Append(@, ViolationRow(consumer[c].transcript, consumer[c].result,
                                             consumer[c].new_count))]
    /\ consumer' = [consumer EXCEPT ![c].pc = "done"]
    /\ UNCHANGED <<now, streams, stream_timeouts, sent, call, thread_sensitive>>

\* await self.log_violation(...), the last step of receive().
LogViolation(c) ==
    /\ consumer[c].pc = "log"
    /\ speech_violations' =
          [speech_violations EXCEPT ![<<consumer[c].user_id, consumer[c].stream_id>>] =
              Append(@, ViolationRow(consumer[c].transcript, consumer[c].result,
                                     consumer[c].new_count))]
    /\ consumer' = [consumer EXCEPT ![c].pc = "done"]
    /\ UNCHANGED <<now, streams, stream_timeouts, sent, call, thread_sensitive>>

\* receive() returns; the connection is ready for its next event.
Return(c) ==
    /\ consumer[c].pc = "done"
    /\ consumer' = [consumer EXCEPT ![c] = Idle]
    /\ sent' = [sent EXCEPT ![c] = <<>>]
    /\ UNCHANGED <<now, streams, speech_violations, stream_timeouts, call, thread_sensitive>>

\* The wall clock advances.
Tick ==
    /\ now + TickStep <= MaxTime
    /\ now' = now + TickStep
    /\ UNCHANGED <<streams, speech_violations, stream_timeouts, consumer, sent, call, thread_sensitive>>

\* No row, every stream live, every connection idle, no call made.
InitEngine ==
    /\ now = 0
    /\ streams = [s \in StreamIds |-> [status |-> "live", ended_at |-> <<>>]]
    /\ speech_violations = [k \in Keys |-> <<>>]
    /\ stream_timeouts = [k \in Keys |-> <<>>]
    /\ consumer = [c \in Conns |-> Idle]
    /\ sent = [c \in Conns |-> <<>>]
    /\ call = [entry |-> "none"]

\* Where run_moderation is one step, the mode of its thread is not read: it is set
\* to the default of asgiref since 3.3.
Init == InitEngine /\ thread_sensitive = TRUE

Next ==
    \/ \E c \in Conns : Receive(c)
    \/ \E c \in Conns : Moderate(c)
    \/ \E c \in Conns : CountViolations(c)
    \/ \E c \in Conns : Act(c)
    \/ \E c \in Conns : LogViolation(c)
    \/ \E c \in Conns : Return(c)
    \/ Tick

Spec == Init /\ [][Next]_vars

(***************************************************************************)
(* One client whose events follow one another, and a database that may     *)
(* refuse the SpeechViolation row: no two events interleave, so whatever   *)
(* this specification repeats, it repeats because of a refused write.      *)
(***************************************************************************)
\* log_violation raises; receive() prints the failure and goes on.
LogViolationFails(c) ==
    /\ consumer[c].pc = "log"
    /\ consumer' = [consumer EXCEPT ![c].pc = "done"]
    /\ UNCHANGED <<now, streams, speech_violations, stream_timeouts, sent, call, thread_sensitive>>

NextFault ==
    \/ Receive("c1")
    \/ Moderate("c1")
    \/ CountViolations("c1")
    \/ Act("c1")
    \/ LogViolation("c1")
    \/ LogViolationFails("c1")
    \/ Return("c1")
    \/ Tick

SpecFault == Init /\ [][NextFault]_vars

(***************************************************************************)
(* One client, a database that may refuse any write of receive(), and an   *)
(* event that names a stream that has no row.                              *)
(***************************************************************************)
\* The handler around issue_timeout / stop_stream let the exception go on: the
\* handler of receive() answers with the generic error and receive() returns.
ActWriteFailsUnnotified(c) ==
    /\ consumer[c].pc = "act"
    /\ consumer[c].new_count >= 2
    /\ sent' = [sent EXCEPT ![c] = Append(@, Message("error", 0, 0))]
    /\ consumer' = [consumer EXCEPT ![c].pc = "done"]
    /\ UNCHANGED <<now, streams, speech_violations, stream_timeouts, call, thread_sensitive>>

\* issue_timeout raises (new_count = 2), or stop_stream raises on stream.save()
\* (new_count >= 3): receive() prints the failure and sends the message of the branch.
ActWriteFails(c) ==
    /\ consumer[c].pc = "act"
    /\ consumer[c].new_count >= 2
    /\ sent' = [sent EXCEPT ![c] =
                   Append(@, IF consumer[c].new_count = 2
                             THEN Message("speech_timeout", 2, timeout_seconds)
                             ELSE Message("stream_stopped", 0, 0))]
    /\ consumer' = [consumer EXCEPT ![c].pc = "log"]
    /\ UNCHANGED <<now, streams, speech_violations, stream_timeouts, call, thread_sensitive>>

\* The stream s1 is live; no stream s2 was ever created.
InitStorage ==
    /\ now = 0
    /\ streams = [s \in StreamIds |->
                     IF s = "s2" THEN NoStream ELSE [status |-> "live", ended_at |-> <<>>]]
    /\ speech_violations = [k \in Keys |-> <<>>]
    /\ stream_timeouts = [k \in Keys |-> <<>>]
    /\ consumer = [c \in Conns |-> Idle]
    /\ sent = [c \in Conns |-> <<>>]
    /\ call = [entry |-> "none"]
    /\ thread_sensitive = TRUE

NextStorage ==
    \/ Receive("c1")
    \/ Moderate("c1")
    \/ CountViolations("c1")
    \/ Act("c1")
    \/ ActWriteFails("c1")
    \/ LogViolation("c1")
    \/ LogViolationFails("c1")
    \/ Return("c1")
    \/ Tick

SpecStorage == InitStorage /\ [][NextStorage]_vars

(***************************************************************************)
(* One client and a provider that may leave a call unanswered.  The event  *)
(* loop runs every step of receive() that is ready, hence the weak         *)
(* fairness of the steps of the connection.                                *)
(***************************************************************************)
\* client.moderations.create(...) is called without a timeout and run_moderation is
\* awaited without a deadline: while the provider does not answer, receive() waits.
ModerateNeverAnswered(c) ==
    /\ consumer[c].pc = "moderate"
    /\ consumer' = [consumer EXCEPT ![c].pc = "waiting"]
    /\ UNCHANGED <<now, streams, speech_violations, stream_timeouts, sent, call, thread_sensitive>>

\* The steps of receive() on connection c once the event is taken in.
Proceed(c) ==
    \/ Moderate(c)
    \/ ModerateNeverAnswered(c)
    \/ CountViolations(c)
    \/ Act(c)
    \/ LogViolation(c)
    \/ Return(c)

NextLive ==
    \/ Receive("c1")
    \/ Proceed("c1")
    \/ Tick

SpecLive == Init /\ [][NextLive]_vars /\ WF_vars(Proceed("c1"))

(***************************************************************************)
(* run_moderation step by step.  It is a function under @sync_to_async, so *)
(* the synchronous client, its time.sleep included, runs in a thread of    *)
(* asgiref.  With thread_sensitive, the default of sync_to_async since     *)
(* asgiref 3.3, every such call of the process runs in one and the same    *)
(* thread, one call at a time; without it (asgiref before 3.3) each call   *)
(* gets a thread of the pool.  The repository does not pin asgiref, so     *)
(* both modes are initial states.                                          *)
(***************************************************************************)
\* The run_moderation of c is in its thread: in a remote call or in time.sleep.
HoldsThread(c) == consumer[c].pc \in {"call", "backoff"}

\* result = await run_moderation(transcript): the call gets its thread and the
\* client makes its first attempt.
StartModeration(c) ==
    /\ consumer[c].pc = "moderate"
    /\ thread_sensitive => \A d \in Conns : ~HoldsThread(d)
    /\ consumer' = [consumer EXCEPT ![c].pc = "call", ![c].attempt = 1]
    /\ UNCHANGED <<now, streams, speech_violations, stream_timeouts, sent, call, thread_sensitive>>

\* The provider limits the rate and attempts are left: time.sleep(backoff), in the thread.
RateLimited(c) ==
    /\ consumer[c].pc = "call"
    /\ consumer[c].attempt < max_attempts
    /\ consumer' = [consumer EXCEPT ![c].pc = "backoff"]
    /\ UNCHANGED <<now, streams, speech_violations, stream_timeouts, sent, call, thread_sensitive>>

\* time.sleep returns: backoff *= 2; continue
Wake(c) ==
    /\ consumer[c].pc = "backoff"
    /\ consumer' = [consumer EXCEPT ![c].pc = "call", ![c].attempt = @ + 1]
    /\ UNCHANGED <<now, streams, speech_violations, stream_timeouts, sent, call, thread_sensitive>>

\* The client returns a result, the thread is released, and receive() branches on
\* result.get('is_toxic').
ModerationReturns(c) ==
    /\ consumer[c].pc = "call"
    /\ \E run \in ModerationRuns :
          LET result == run_moderation(consumer[c].transcript, run)
          IN  IF result.is_toxic
              THEN /\ consumer' = [consumer EXCEPT ![c].pc = "count", ![c].result = result,
                                                   ![c].attempt = 0]
                   /\ UNCHANGED sent
              ELSE /\ consumer' = [consumer EXCEPT ![c].pc = "done", ![c].result = result,
                                                   ![c].attempt = 0]
                   /\ sent' = [sent EXCEPT ![c] = Append(@, Message("speech_clean", 0, 0))]
    /\ UNCHANGED <<now, streams, speech_violations, stream_timeouts, call, thread_sensitive>>

InitThreads == InitEngine /\ thread_sensitive \in BOOLEAN

NextThreads ==
    \/ \E c \in Conns : Receive(c)
    \/ \E c \in Conns : StartModeration(c)
    \/ \E c \in Conns : RateLimited(c)
    \/ \E c \in Conns : Wake(c)
    \/ \E c \in Conns : ModerationReturns(c)
    \/ \E c \in Conns : CountViolations(c)
    \/ \E c \in Conns : Act(c)
    \/ \E c \in Conns : LogViolation(c)
    \/ \E c \in Conns : Return(c)

SpecThreads == InitThreads /\ [][NextThreads]_vars

(***************************************************************************)
(* Direct calls of the facade, as the scripts of the repository make them. *)
(***************************************************************************)
\* detector.analyze(text)
CallAnalyze ==
    /\ call.entry = "none"
    /\ \E method \in Methods, text \in Texts :
          \E env \in Envs(method) :
              LET r == Analyze(method, text, env)
              IN  call' = [entry |-> "analyze", method |-> method, text |-> text, env |-> env,
                           result |-> r.result, trace |-> r.trace]
    /\ UNCHANGED engine_vars

\* await detector.analyze_async(text)
CallAnalyzeAsync ==
    /\ call.entry = "none"
    /\ \E method \in Methods, text \in Texts :
          \E env \in Envs(method) :
              LET r == AnalyzeAsync(method, text, env)
              IN  call' = [entry |-> "analyze_async", method |-> method, text |-> text, env |-> env,
                           result |-> r.result, trace |-> r.trace]
    /\ UNCHANGED engine_vars

\* What a writer puts between the characters of a term to disguise it: nothing, a
\* point, a dash and a space, three stars.
Separators == {<<>>, <<".">>, <<"-", " ">>, <<"*", "*", "*">>}

\* What stands right before a term in a text, and right after it.
Prefixes == {<<>>, <<"x">>, <<"x", " ">>}

Suffixes == {<<>>, <<"x">>, <<"!">>}

\* The characters of a term with the separator between each two of them.
RECURSIVE Obfuscate(_, _)
Obfuscate(chars, separator) ==
    IF Len(chars) <= 1 THEN chars
    ELSE <<chars[1]>> \o separator \o Obfuscate(Tail(chars), separator)

\* detector.analyze(text), method 'keyword', on a text that holds a term of the
\* lexicon, disguised or not.
CallKeywordDetect ==
    /\ call.entry = "none"
    /\ \E i \in DOMAIN toxic_keywords, separator \in Separators,
          prefix \in Prefixes, suffix \in Suffixes :
          LET text == prefix \o Obfuscate(toxic_keywords[i].chars, separator) \o suffix
          IN  call' = [entry |-> "detect", method |-> "keyword", text |-> text,
                       term |-> toxic_keywords[i], separator |-> separator,
                       prefix |-> prefix, suffix |-> suffix,
                       result |-> Analyze("keyword", text, [api_key |-> "<unset>"]).result,
                       trace |-> <<>>]
    /\ UNCHANGED engine_vars

NextDetect == CallAnalyze \/ CallAnalyzeAsync \/ CallKeywordDetect

SpecDetect == Init /\ [][NextDetect]_vars

(***************************************************************************)
(* Calls of the fact check, of a facade built with or without a method,    *)
(* and of run_moderation under each setting of MODERATION_METHOD.          *)
(***************************************************************************)
Rating(chars) == [kind |-> "string", chars |-> chars]

RatingFalse == Rating(<<"F", "a", "l", "s", "e">>)

RatingMostlyFalse == Rating(<<"M", "o", "s", "t", "l", "y", " ", "F", "A", "L", "S", "E">>)

RatingMisleading == Rating(<<"M", "i", "s", "l", "e", "a", "d", "i", "n", "g">>)

RatingFake == Rating(<<"F", "a", "k", "e">>)

RatingDebunked == Rating(<<"D", "e", "b", "u", "n", "k", "e", "d">>)

RatingTrue == Rating(<<"T", "r", "u", "e">>)

RatingMissing == [kind |-> "missing", chars |-> <<>>]

RatingNull == [kind |-> "null", chars |-> <<>>]

Ratings ==
    {RatingFalse, RatingMostlyFalse, RatingMisleading, RatingFake, RatingDebunked,
     RatingTrue, RatingMissing, RatingNull}

Publishers == {"Snopes", "<missing>"}

Reviews == {[textualRating |-> r, publisher |-> p] : r \in Ratings, p \in Publishers}

\* The claimReview lists of a claim: none, one review, a first review and a second.
ReviewLists ==
    {<<>>} \cup {<<r>> : r \in Reviews}
    \cup {<<[textualRating |-> a, publisher |-> "PolitiFact"],
            [textualRating |-> b, publisher |-> "Snopes"]>> :
              a \in {RatingTrue, RatingFalse}, b \in {RatingTrue, RatingFalse}}

FactClaims == {[claimReview |-> l] : l \in ReviewLists}

MaxClaims == 2

ClaimLists == UNION {[1..n -> FactClaims] : n \in 0..MaxClaims}

Body(claims) ==
    [kind |-> "response", status |-> 200, json |-> TRUE, shape |-> "object", claims |-> claims]

\* What the GET of the claim search may give: an exception of the transport, an
\* error status, a body that is no JSON, a JSON array, an object with its claims.
FactCheckOutcomes ==
    {[kind |-> "error", status |-> 0, json |-> FALSE, shape |-> "", claims |-> <<>>],
     [kind |-> "response", status |-> 403, json |-> TRUE, shape |-> "object", claims |-> <<>>],
     [kind |-> "response", status |-> 500, json |-> FALSE, shape |-> "", claims |-> <<>>],
     [kind |-> "response", status |-> 200, json |-> FALSE, shape |-> "", claims |-> <<>>],
     [kind |-> "response", status |-> 200, json |-> TRUE, shape |-> "array", claims |-> <<>>]}
    \cup {Body(claims) : claims \in ClaimLists}

FactCheckKeys == {"<unset>", "", "AIza-key"}

Statements == {TextHello, TextBad}

\* is_factually_correct(text)
CallIsFactuallyCorrect ==
    /\ call.entry = "none"
    /\ \E api_key \in FactCheckKeys, text \in Statements, outcome \in FactCheckOutcomes :
          LET r == is_factually_correct(api_key, text, outcome)
          IN  call' = [entry |-> "is_factually_correct", api_key |-> api_key, text |-> text,
                       outcome |-> outcome, verdict |-> r.verdict, trace |-> r.trace]
    /\ UNCHANGED engine_vars

\* await is_factually_correct_async(text)
CallIsFactuallyCorrectAsync ==
    /\ call.entry = "none"
    /\ \E api_key \in FactCheckKeys, text \in Statements, outcome \in FactCheckOutcomes :
          LET r == is_factually_correct_async(api_key, text, outcome)
          IN  call' = [entry |-> "is_factually_correct_async", api_key |-> api_key,
                       text |-> text, outcome |-> outcome, verdict |-> r.verdict,
                       trace |-> r.trace]
    /\ UNCHANGED engine_vars

\* The arguments a caller may build the facade with: none, a method, an unknown name.
GivenMethods == {"<omitted>", "bogus"} \cup Methods

\* The values of MODERATION_METHOD in the environment of the server.
MethodSettings == {"<unset>", "bogus"} \cup Methods

\* A credential or none, a provider that answers or limits the rate, a loaded model.
FacadeEnvs ==
    {[api_key |-> k, script |-> ConstantScript(o), model |-> ModelToxic] :
        k \in ApiKeys, o \in {Responded(ResponseFlagged), Raised(RateLimitError)}}

\* ToxicityDetector(...).analyze(text) and await ToxicityDetector(...).analyze_async(text)
CallToxicityDetector ==
    /\ call.entry = "none"
    /\ \E given \in GivenMethods, text \in Texts, env \in FacadeEnvs, async \in BOOLEAN :
          LET method == ToxicityDetector(given)
              r == IF async THEN AnalyzeAsync(method, text, env) ELSE Analyze(method, text, env)
          IN  call' = [entry |-> IF async THEN "ToxicityDetector.analyze_async"
                                 ELSE "ToxicityDetector.analyze",
                       given |-> given, method |-> method, text |-> text, env |-> env,
                       result |-> r.result, trace |-> r.trace]
    /\ UNCHANGED engine_vars

\* await run_moderation(text)
CallRunModeration ==
    /\ call.entry = "none"
    /\ \E value \in MethodSettings, text \in Texts, env \in FacadeEnvs :
          LET method == ToxicityDetector(MODERATION_METHOD(value))
              r == Analyze(method, text, env)
          IN  call' = [entry |-> "run_moderation", setting |-> value, method |-> method,
                       text |-> text, env |-> env,
                       result |-> run_moderation(text, [MODERATION_METHOD |-> value, env |-> env]),
                       trace |-> r.trace]
    /\ UNCHANGED engine_vars

NextCalls ==
    \/ CallIsFactuallyCorrect
    \/ CallIsFactuallyCorrectAsync
    \/ CallToxicityDetector
    \/ CallRunModeration

SpecCalls == Init /\ [][NextCalls]_vars

(***************************************************************************)
(* Properties of the escalation, stated on the steps of one receive().     *)
(***************************************************************************)
KeyOf(c) == <<consumer[c].user_id, consumer[c].stream_id>>

\* This step is a step of connection c.
Moved(c) == consumer'[c] # consumer[c]

\* c reads the violation count of its key, which has n rows.
Counting(c, n) == Moved(c) /\ consumer[c].pc = "count" /\ Len(speech_violations[KeyOf(c)]) = n

\* c takes the branch on new_count, having read new_count = n.
Acting(c, n) == Moved(c) /\ consumer[c].pc = "act" /\ consumer[c].new_count = n

\* c logs its violation, having read new_count = n.
Logging(c, n) == Moved(c) /\ consumer[c].pc = "log" /\ consumer[c].new_count = n

\* The step adds exactly one SpeechViolation row, of this kind, to the key of c.
OneViolationAdded(c, kind) ==
    LET k == KeyOf(c)
        before == speech_violations[k]
        after == speech_violations'[k]
    IN  /\ Len(after) = Len(before) + 1
        /\ SubSeq(after, 1, Len(before)) = before
        /\ after[Len(after)].violation_type = kind
        /\ after[Len(after)].transcript = consumer[c].transcript
        /\ \A j \in Keys \ {k} : speech_violations'[j] = speech_violations[j]

\* The step delivers exactly this message to the client of c.
Delivered(c, message) == sent'[c] = Append(sent[c], message)

\* A StreamTimeout row of the key is active and expires strictly later than now.
ActiveTimeout(k) ==
    \E i \in DOMAIN stream_timeouts[k] :
        stream_timeouts[k][i].is_active /\ stream_timeouts[k][i].expires_at > now

\* C1: with 0 prior violations of the key, a toxic utterance adds exactly one
\* SpeechViolation of type warning and sends speech_warning with warning_number 1;
\* it creates no StreamTimeout and leaves the stream as it is.
C1_FirstViolationWarns ==
    [][\A c \in Conns :
          /\ Counting(c, 0) => consumer'[c].new_count = 1
          /\ Acting(c, 1) =>
                /\ Delivered(c, Message("speech_warning", 1, 0))
                /\ UNCHANGED <<speech_violations, stream_timeouts, streams>>
          /\ Logging(c, 1) =>
                /\ OneViolationAdded(c, "warning")
                /\ UNCHANGED <<stream_timeouts, streams, sent>>]_vars

C1_Witness ==
    \E c \in Conns :
        /\ consumer[c].pc = "done"
        /\ consumer[c].new_count = 1
        /\ sent[c] = <<Message("speech_toxic", 1, 0), Message("speech_warning", 1, 0)>>
        /\ Len(speech_violations[KeyOf(c)]) = 1
        /\ speech_violations[KeyOf(c)][1].violation_type = "warning"
        /\ stream_timeouts[KeyOf(c)] = <<>>
        /\ streams[consumer[c].stream_id].status = "live"

\* C2, as the specification states it: with exactly 1 prior violation a toxic
\* utterance adds a SpeechViolation of type warning, sends speech_warning with
\* warning_number 2 and issues no StreamTimeout.
C2_SecondViolationOnlyWarns ==
    [][\A c \in Conns :
          /\ Acting(c, 2) =>
                /\ Delivered(c, Message("speech_warning", 2, 0))
                /\ stream_timeouts' = stream_timeouts
          /\ Logging(c, 2) => OneViolationAdded(c, "warning")]_vars

\* C2, amended: with exactly 1 prior violation a toxic utterance carries warning
\* number 2, which is delivered as speech_timeout (timeout_duration 60), adds a
\* SpeechViolation of type timeout, and issues one StreamTimeout for the key.
C2_SecondViolationTimesOut ==
    [][\A c \in Conns :
          /\ Counting(c, 1) => consumer'[c].new_count = 2
          /\ Acting(c, 2) =>
                /\ Delivered(c, Message("speech_timeout", 2, 60))
                /\ Len(stream_timeouts'[KeyOf(c)]) = Len(stream_timeouts[KeyOf(c)]) + 1
                /\ speech_violations' = speech_violations
          /\ Logging(c, 2) => OneViolationAdded(c, "timeout") /\ UNCHANGED sent]_vars

C2_Witness ==
    \E c \in Conns :
        /\ consumer[c].pc = "done"
        /\ consumer[c].new_count = 2
        /\ sent[c] = <<Message("speech_toxic", 2, 0), Message("speech_timeout", 2, 60)>>
        /\ Len(speech_violations[KeyOf(c)]) = 2
        /\ speech_violations[KeyOf(c)][2].violation_type = "timeout"
        /\ Len(stream_timeouts[KeyOf(c)]) = 1

\* The step adds to the key of c one active StreamTimeout of 60 seconds that
\* expires 60 seconds after it was issued, and no other.
TimeoutIssued(c) ==
    LET k == KeyOf(c)
    IN  /\ stream_timeouts'[k] =
              Append(stream_timeouts[k],
                     [duration_seconds |-> 60, started_at |-> now,
                      expires_at |-> now + 60, is_active |-> TRUE])
        /\ \A j \in Keys \ {k} : stream_timeouts'[j] = stream_timeouts[j]

\* C3, as the specification states it: with exactly 2 prior violations a toxic
\* utterance issues an active StreamTimeout of 60 seconds, adds a SpeechViolation
\* of type timeout, sends speech_timeout and does not end the stream.
C3_ThirdViolationTimesOut ==
    [][\A c \in Conns :
          /\ Counting(c, 2) => consumer'[c].new_count = 3
          /\ Acting(c, 3) =>
                /\ TimeoutIssued(c)
                /\ \E n \in 1..(MaxViolations + 1) : Delivered(c, Message("speech_timeout", n, 60))
                /\ streams' = streams
          /\ Logging(c, 3) => OneViolationAdded(c, "timeout")]_vars

\* C3, amended: it is with exactly 1 prior violation that a toxic utterance issues
\* an active StreamTimeout of 60 seconds expiring 60 seconds after its issue, adds
\* a SpeechViolation of type timeout and sends speech_timeout, the stream not
\* being ended at that step; with exactly 2 prior violations it issues no
\* StreamTimeout, ends the stream, adds a SpeechViolation of type stream_stop and
\* sends stream_stopped.
C3_TimeoutAtSecondViolation ==
    [][\A c \in Conns :
          /\ Counting(c, 1) => consumer'[c].pc = "act" /\ consumer'[c].new_count = 2
          /\ Acting(c, 2) =>
                /\ TimeoutIssued(c)
                /\ \E n \in 1..(MaxViolations + 1) : Delivered(c, Message("speech_timeout", n, 60))
                /\ streams' = streams
          /\ Logging(c, 2) =>
                /\ OneViolationAdded(c, "timeout")
                /\ UNCHANGED <<stream_timeouts, streams>>
          /\ Counting(c, 2) => consumer'[c].pc = "act" /\ consumer'[c].new_count = 3
          /\ Acting(c, 3) =>
                /\ stream_timeouts' = stream_timeouts
                /\ Delivered(c, Message("stream_stopped", 0, 0))
                /\ streams'[consumer[c].stream_id].status = "ended"
          /\ Logging(c, 3) => OneViolationAdded(c, "stream_stop")]_vars

C3_Witness ==
    \E c \in Conns :
        /\ consumer[c].pc = "log"
        /\ consumer[c].new_count = 2
        /\ Len(speech_violations[KeyOf(c)]) = 1
        /\ Len(stream_timeouts[KeyOf(c)]) = 1
        /\ stream_timeouts[KeyOf(c)][1].is_active
        /\ stream_timeouts[KeyOf(c)][1].duration_seconds = 60
        /\ stream_timeouts[KeyOf(c)][1].expires_at = stream_timeouts[KeyOf(c)][1].started_at + 60
        /\ sent[c][Len(sent[c])].type = "speech_timeout"
        /\ streams[consumer[c].stream_id].status = "live"

\* C4: with 3 or more prior violations every toxic utterance ends the stream
\* (status ended, ended_at stamped), adds a SpeechViolation of type stream_stop and
\* sends stream_stopped; the count of a key never falls back under 3, so no later
\* utterance is warned or timed out, and an ended stream stays ended.
C4_StreamStopFromThreePrior ==
    [][/\ \A c \in Conns : \A n \in 3..MaxViolations :
             /\ Counting(c, n) => consumer'[c].pc = "act" /\ consumer'[c].new_count = n + 1
             /\ Acting(c, n + 1) =>
                   /\ streams' = [streams EXCEPT ![consumer[c].stream_id] =
                                     [status |-> "ended", ended_at |-> <<now>>]]
                   /\ Delivered(c, Message("stream_stopped", 0, 0))
                   /\ UNCHANGED <<stream_timeouts, speech_violations>>
             /\ Logging(c, n + 1) =>
                   /\ OneViolationAdded(c, "stream_stop")
                   /\ UNCHANGED <<stream_timeouts, streams, sent>>
       /\ \A k \in Keys :
             Len(speech_violations[k]) >= 3 => Len(speech_violations'[k]) >= 3
       /\ \A st \in StreamIds :
             streams[st].status = "ended" => streams'[st].status = "ended"]_vars

C4_Witness ==
    \E c \in Conns :
        /\ consumer[c].pc = "done"
        /\ consumer[c].new_count >= 4
        /\ sent[c] = <<Message("speech_toxic", consumer[c].new_count, 0),
                       Message("stream_stopped", 0, 0)>>
        /\ streams[consumer[c].stream_id].status = "ended"
        /\ streams[consumer[c].stream_id].ended_at # <<>>
        /\ Len(speech_violations[KeyOf(c)]) >= 4
        /\ speech_violations[KeyOf(c)][4].violation_type = "stream_stop"

\* The step changes no row of the database.
NoRowChanged == UNCHANGED <<speech_violations, stream_timeouts, streams>>

\* C5: an utterance (a speech_transcript event with a transcript that is not
\* blank) that arrives while its key has an active StreamTimeout expiring strictly
\* later than now is not classified, changes no row, and its sender gets
\* timeout_active and nothing else.
C5_TimedOutUtteranceIsGated ==
    [][\A c \in Conns :
          /\ ( /\ Moved(c)
               /\ consumer[c].pc = "idle"
               /\ consumer'[c].user_id # ""
               /\ ActiveTimeout(<<consumer'[c].user_id, consumer'[c].stream_id>>) )
             => /\ consumer'[c].pc = "done"
                /\ consumer'[c].result = NoResult
                /\ sent'[c] = <<Message("timeout_active", 0, 0)>>
                /\ NoRowChanged
          /\ (Moved(c) /\ consumer[c].pc = "done")
             => consumer'[c].pc = "idle" /\ NoRowChanged]_vars

C5_Witness ==
    \E c \in Conns :
        /\ consumer[c].pc = "done"
        /\ consumer[c].user_id # ""
        /\ ActiveTimeout(KeyOf(c))
        /\ consumer[c].result = NoResult
        /\ sent[c] = <<Message("timeout_active", 0, 0)>>

\* C6: whatever the number of prior violations, an utterance that passed the
\* timeout check and is classified as not toxic changes no row (so no count), and
\* its sender gets exactly one message, speech_clean.
C6_CleanUtteranceChangesNothing ==
    [][\A c \in Conns :
          /\ (Moved(c) /\ consumer[c].pc = "moderate" /\ ~consumer'[c].result.is_toxic)
             => /\ consumer'[c].pc = "done"
                /\ sent[c] = <<>>
                /\ sent'[c] = <<Message("speech_clean", 0, 0)>>
                /\ NoRowChanged
          /\ (Moved(c) /\ consumer[c].pc = "done" /\ consumer[c].result.method # "none"
                /\ ~consumer[c].result.is_toxic)
             => consumer'[c].pc = "idle" /\ NoRowChanged]_vars

C6_Witness ==
    \E c \in Conns :
        /\ consumer[c].pc = "done"
        /\ consumer[c].result.method # "none"
        /\ ~consumer[c].result.is_toxic
        /\ sent[c] = <<Message("speech_clean", 0, 0)>>
        /\ Len(speech_violations[KeyOf(c)]) >= 2

\* C7: the count read and the row write of one key are serialized: no two
\* utterances of a key are at once between their count read and their row write
\* holding the same count, so no warning number is issued twice.
C7_CountReadsSerialized ==
    \A c1, c2 \in Conns :
        ( /\ c1 # c2
          /\ consumer[c1].pc \in {"act", "log"}
          /\ consumer[c2].pc \in {"act", "log"}
          /\ KeyOf(c1) = KeyOf(c2) )
        => consumer[c1].new_count # consumer[c2].new_count

(***************************************************************************)
(* Properties of the remote moderation client, stated on a finished call   *)
(* of the facade with method "api".                                        *)
(***************************************************************************)
ApiCallDone == call.entry # "none" /\ call.method = "api"

\* The provider answers this call with a rate-limit error (HTTP 429).
IsHttp429(outcome) ==
    outcome.kind = "error" /\ outcome.error \in {RateLimitError, TooManyRequestsError}

RemoteCall(attempt) == [op |-> "call", arg |-> attempt]

Sleep(seconds) == [op |-> "sleep", arg |-> seconds]

\* C8: with a credential and a provider that answers every call with HTTP 429, the
\* client, sync and async, makes exactly 3 calls, sleeps 1 then 2 seconds between
\* them and not after the third, and returns the keyword result of the text.
C8_RateLimitedThreeAttempts ==
    ( /\ ApiCallDone
      /\ call.env.api_key \notin {"<unset>", ""}
      /\ \A i \in DOMAIN call.env.script : IsHttp429(call.env.script[i]) )
    => /\ call.trace = <<RemoteCall(1), Sleep(1), RemoteCall(2), Sleep(2), RemoteCall(3)>>
       /\ call.result = KeywordDetect(call.text)

C8_Witness ==
    /\ ApiCallDone
    /\ call.entry = "analyze_async"
    /\ call.env.api_key = "sk-key"
    /\ \A i \in DOMAIN call.env.script : call.env.script[i] = Raised(RateLimitError)
    /\ Len(call.trace) = 5
    /\ call.text = TextKillDotted
    /\ call.result.method = "keyword"
    /\ call.result.is_toxic

\* C9: without a credential (unset or empty) detect and detect_async make no
\* remote call and no sleep, and return the keyword result of the text.
C9_NoCredentialNoRemoteCall ==
    (ApiCallDone /\ call.env.api_key \in {"<unset>", ""})
    => call.trace = <<>> /\ call.result = KeywordDetect(call.text)

C9_Witness ==
    /\ ApiCallDone
    /\ call.entry = "analyze"
    /\ call.env.api_key = ""
    /\ call.trace = <<>>
    /\ call.text = TextKill
    /\ call.result.method = "keyword"

\* The remote calls a finished call made, and those of them that succeeded: the
\* provider responded and the response was normalized.
CallsMade == {call.trace[i].arg : i \in {j \in DOMAIN call.trace : call.trace[j].op = "call"}}

Succeeded(attempt) ==
    /\ call.env.script[attempt].kind = "response"
    /\ ProcessResults(call.env.script[attempt].response, call.text).ok

\* C10: whatever the outcomes of the remote calls, the client returns a result
\* and never raises: within at most 3 calls, the normalized result of the first
\* call that succeeded, and the keyword result of the text when none did.
C10_AlwaysAResult ==
    (ApiCallDone /\ call.env.api_key \notin {"<unset>", ""})
    => LET ok == {k \in CallsMade : Succeeded(k)}
           first == CHOOSE k \in ok : \A j \in ok : k <= j
       IN  /\ CallsMade # {}
           /\ CallsMade \subseteq 1..3
           /\ call.result.method \in {"openai_moderation", "keyword"}
           /\ IF ok # {}
              THEN call.result = ProcessResults(call.env.script[first].response, call.text).value
              ELSE call.result = KeywordDetect(call.text)

C10_Witness ==
    /\ ApiCallDone
    /\ call.env.api_key = "sk-key"
    /\ call.env.script[1] = Raised(RateLimitError)
    /\ call.env.script[2] = Responded(ResponseNullScore)
    /\ CallsMade = {1, 2}
    /\ call.result = KeywordDetect(call.text)
    /\ call.text = TextKill

(***************************************************************************)
(* Properties of the engine over several events of one key.                *)
(***************************************************************************)
\* c takes in an utterance: a speech_transcript event whose transcript is not blank.
Arriving(c) ==
    /\ Moved(c)
    /\ consumer[c].pc = "idle"
    /\ consumer'[c].message_type = "speech_transcript"
    /\ consumer'[c].user_id # ""

\* The key named by the utterance c takes in.
ArrivingKey(c) == <<consumer'[c].user_id, consumer'[c].stream_id>>

\* The utterance c takes in repeats the transcript of the latest row of its key.
Replay(c) ==
    LET rows == speech_violations[ArrivingKey(c)]
    IN  Len(rows) >= 1 /\ rows[Len(rows)].transcript = consumer'[c].transcript

\* The step appends one row holding the transcript of c to the key of c.
RowAppended(c) ==
    LET before == speech_violations[KeyOf(c)]
        after == speech_violations'[KeyOf(c)]
    IN  /\ Len(after) = Len(before) + 1
        /\ SubSeq(after, 1, Len(before)) = before
        /\ after[Len(after)].transcript = consumer[c].transcript

\* C11, as the specification states it: from any prior count, the replay of a toxic
\* transcript is processed like its first delivery, so that the two deliveries
\* store two rows and advance the count by 2.
C11_ReplayAlwaysCounted ==
    [][\A c \in Conns :
          /\ (Arriving(c) /\ Replay(c)) => consumer'[c].pc = "moderate"
          /\ \A n \in 1..(MaxViolations + 1) : Logging(c, n) => RowAppended(c)]_vars

\* C11, amended: a replay that no active timeout gates is processed like a first
\* delivery, whatever rows its key has, and every toxic delivery that reaches the
\* log stores its own row (count + 1 each, no suppression of equal transcripts); a
\* replay that meets an active timeout stores nothing.
C11_UngatedReplayCounted ==
    [][\A c \in Conns :
          /\ (Arriving(c) /\ Replay(c) /\ ~ActiveTimeout(ArrivingKey(c)))
             => consumer'[c].pc = "moderate"
          /\ (Arriving(c) /\ Replay(c) /\ ActiveTimeout(ArrivingKey(c)))
             => consumer'[c].pc = "done" /\ speech_violations' = speech_violations
          /\ \A n \in 1..(MaxViolations + 1) : Logging(c, n) => RowAppended(c)]_vars

C11_Witness ==
    \E k \in Keys :
        /\ Len(speech_violations[k]) = 4
        /\ speech_violations[k][3].transcript = speech_violations[k][4].transcript
        /\ speech_violations[k][3].violation_type = "stream_stop"
        /\ speech_violations[k][4].violation_type = "stream_stop"
        /\ \A c \in Conns : consumer[c].pc = "idle"

\* The step is the log of c, and the database refused the row.
WriteFailed(c) ==
    Moved(c) /\ consumer[c].pc = "log" /\ speech_violations' = speech_violations

\* C12: a refused SpeechViolation row withholds nothing and repeats nothing: the
\* notifications of the utterance were delivered and stay so, and no step of the
\* escalation is issued to the key a second time: a key is timed out once.
C12_FailedWriteRepeatsNothing ==
    [][\A c \in Conns :
          /\ WriteFailed(c) =>
                /\ sent'[c] = sent[c]
                /\ Len(sent[c]) = 2
                /\ sent[c][1].type = "speech_toxic"
                /\ sent[c][2].type \in {"speech_warning", "speech_timeout", "stream_stopped"}
          /\ Acting(c, 2) => stream_timeouts[KeyOf(c)] = <<>>]_vars

\* c is handling, or has handled, an event json.loads could not parse.
Malformed(c) == consumer[c].message_type = "<JSONDecodeError>"

\* C13: an event that cannot be parsed gets its sender exactly one message, the
\* generic error; no other connection is sent anything and no row changes.
C13_MalformedEventOnlyErrors ==
    [][\A c \in Conns :
          /\ (Moved(c) /\ consumer[c].pc = "idle" /\ Malformed(c)')
             => /\ consumer'[c].pc = "done"
                /\ sent'[c] = <<Message("error", 0, 0)>>
                /\ \A d \in Conns \ {c} : sent'[d] = sent[d]
                /\ NoRowChanged
          /\ (Moved(c) /\ Malformed(c))
             => /\ consumer[c].pc = "done" /\ consumer'[c].pc = "idle"
                /\ \A d \in Conns \ {c} : sent'[d] = sent[d]
                /\ NoRowChanged]_vars

C13_Witness ==
    \E c \in Conns :
        /\ Malformed(c)
        /\ consumer[c].pc = "done"
        /\ sent[c] = <<Message("error", 0, 0)>>
        /\ \E d \in Conns \ {c} : consumer[d].pc = "act" /\ Len(sent[d]) = 1
        /\ \E k \in Keys : Len(speech_violations[k]) = 1

\* C14: no remote call stalls the decision for ever: every utterance that was
\* accepted for classification gets its result and its notification, receive()
\* reaching its end.
C14_EveryUtteranceAnswered ==
    \A c \in Conns : (consumer[c].pc = "moderate") ~> (consumer[c].pc = "done")

\* C15: the violation count of a key is the number of its rows and never falls: no
\* step removes or alters a row, a step adds at most one row, to one key, and the
\* count read for a key ignores the rows of every other key, so that the key of a
\* new stream starts at 0.
C15_CountNeverDecreases ==
    [][/\ \A k \in Keys :
             /\ Len(speech_violations'[k]) >= Len(speech_violations[k])
             /\ Len(speech_violations'[k]) <= Len(speech_violations[k]) + 1
             /\ SubSeq(speech_violations'[k], 1, Len(speech_violations[k])) = speech_violations[k]
       /\ Cardinality({k \in Keys : speech_violations'[k] # speech_violations[k]}) <= 1
       /\ \A c \in Conns :
             (Moved(c) /\ consumer[c].pc = "count")
             => consumer'[c].new_count = Len(speech_violations[KeyOf(c)]) + 1]_vars

C15_Witness ==
    \E c \in Conns :
        /\ consumer[c].pc = "act"
        /\ consumer[c].new_count = 1
        /\ consumer[c].stream_id = "s2"
        /\ Len(speech_violations[<<consumer[c].user_id, "s1">>]) = 3
        /\ Len(speech_violations[KeyOf(c)]) = 0

\* The step delivers this message to every connection of the group of the stream.
Broadcast(stream_id, message) ==
    \A d \in room_group(stream_id) : sent'[d] = Append(sent[d], message)

\* C16: the notice of a timeout and the notice of a stream stop reach every
\* connection of the stream, not only the connection the utterance came from.
C16_EnforcementIsBroadcast ==
    [][\A c \in Conns :
          /\ Acting(c, 2) =>
                Broadcast(consumer[c].stream_id, Message("speech_timeout", 2, timeout_seconds))
          /\ \A n \in 3..(MaxViolations + 1) :
                Acting(c, n) => Broadcast(consumer[c].stream_id, Message("stream_stopped", 0, 0))]_vars

(***************************************************************************)
(* Properties of the classification results, stated on a finished call of  *)
(* the facade.  Scores are in units of 1/3000: 0.3 is 900 and 1.0 is 3000. *)
(***************************************************************************)
KeywordCallDone == call.entry # "none" /\ call.result.method = "keyword"

\* The counter of a tier in the categories of a keyword result.
TierCount(result, tier) ==
    LET i == CHOOSE j \in DOMAIN result.categories : result.categories[j].name = tier
    IN  result.categories[i].score

\* C17: the score of a keyword result is min((high * 1.0 + medium * 0.6 + low * 0.3)
\* / 3.0, 1.0) of its three counters, is_toxic holds exactly when the score is
\* strictly above 0.3, and a text without a match, the empty text included, scores 0
\* and is not toxic.
C17_KeywordScoreFormula ==
    KeywordCallDone =>
        LET r == call.result
            high == TierCount(r, "high")
            medium == TierCount(r, "medium")
            low == TierCount(r, "low")
            weighted == high * 3000 + medium * 1800 + low * 900
        IN  /\ r.toxicity_score = IF weighted >= 9000 THEN 3000 ELSE weighted \div 3
            /\ r.is_toxic <=> r.toxicity_score > 900
            /\ Len(r.detected_words) = high + medium + low
            /\ (r.detected_words = <<>>) => (r.toxicity_score = 0 /\ ~r.is_toxic)
            /\ (call.text = <<>>) => (r.detected_words = <<>> /\ r.toxicity_score = 0)

C17_Witness ==
    /\ KeywordCallDone
    /\ call.method = "keyword"
    /\ call.text = TextDumbBad
    /\ TierCount(call.result, "medium") = 1
    /\ TierCount(call.result, "low") = 1
    /\ call.result.toxicity_score = 900
    /\ ~call.result.is_toxic

\* C18: every result any strategy returns, fallbacks included, has its
\* toxicity_score within [0, 1] whatever the provider or the model returned, and
\* the keyword result depends on the text alone.
C18_ScoreWithinUnitInterval ==
    call.entry # "none" =>
        /\ call.result.toxicity_score >= 0
        /\ call.result.toxicity_score <= 3000
        /\ call.result.method = "keyword" => call.result = KeywordDetect(call.text)

\* The number of times word stands in the sequence words.
Occurrences(word, words) == Cardinality({i \in DOMAIN words : words[i] = word})

\* The words of a tier among the detected words; a harassment pattern counts as high.
DetectedOfTier(words, tier) ==
    Cardinality({i \in DOMAIN words :
                    \/ \E j \in DOMAIN toxic_keywords :
                          toxic_keywords[j].word = words[i] /\ toxic_keywords[j].severity = tier
                    \/ tier = "high" /\ words[i] = "harassment_pattern"})

\* The call found its term: the term stands once among the detected words and the
\* counter of its tier counts it.
TermDetected ==
    /\ Occurrences(call.term.word, call.result.detected_words) = 1
    /\ TierCount(call.result, call.term.severity) >= 1
    /\ TierCount(call.result, call.term.severity) =
          DetectedOfTier(call.result.detected_words, call.term.severity)

\* The term of the call is not glued to a word character on either side.
Delimited ==
    /\ call.prefix = <<>> \/ ~IsWordChar(call.prefix[Len(call.prefix)])
    /\ call.suffix = <<>> \/ ~IsWordChar(call.suffix[1])

\* C19, as the specification states it: every text that contains a term of the
\* lexicon with non-word characters put between its characters is detected like
\* the literal term: the term is among the detected words, its tier is counted.
C19_ObfuscatedTermDetected ==
    call.entry = "detect" => TermDetected

\* C19, amended: the disguised term is detected like the literal one when it
\* begins and ends at a word boundary; the literal term is detected wherever it
\* stands.
C19_DelimitedObfuscatedTermDetected ==
    (call.entry = "detect" /\ (call.separator = <<>> \/ Delimited)) => TermDetected

C19_Witness ==
    /\ call.entry = "detect"
    /\ call.term.word = "shut up"
    /\ call.separator = <<"-", " ">>
    /\ call.prefix = <<"x", " ">>
    /\ call.suffix = <<"!">>
    /\ call.result.detected_words = <<"shut up">>
    /\ TierCount(call.result, "low") = 1

\* The response the result of the call was normalized from: that of the first
\* remote call that succeeded.
NormalizedResponse ==
    LET ok == {k \in CallsMade : Succeeded(k)}
    IN  call.env.script[CHOOSE k \in ok : \A j \in ok : k <= j].response

\* The category scores of a response: its entries but the private attributes.
CategoryScoresOf(response) ==
    {response.category_scores[i].score :
        i \in {j \in DOMAIN response.category_scores :
                  response.category_scores[j].name \notin PrivateNames}}

\* C20: a normalized remote result is toxic exactly when the provider flagged the
\* text or some category score is strictly above 0.7, and its toxicity_score is the
\* greatest category score, 0 when there is no category.
C20_RemoteNormalization ==
    (ApiCallDone /\ call.result.method = "openai_moderation") =>
        LET response == NormalizedResponse
            scores == CategoryScoresOf(response)
        IN  /\ call.result.is_toxic <=> (response.flagged \/ \E s \in scores : s > 2100)
            /\ scores = {} => call.result.toxicity_score = 0
            /\ scores # {} =>
                  /\ call.result.toxicity_score \in scores
                  /\ \A s \in scores : s <= call.result.toxicity_score

C20_Witness ==
    /\ ApiCallDone
    /\ call.result.method = "openai_moderation"
    /\ call.env.script[1] = Raised(TooManyRequestsError)
    /\ call.env.script[2] = Responded(ResponseBoundary)
    /\ CallsMade = {1, 2}
    /\ ~call.result.is_toxic
    /\ call.result.toxicity_score = 2100

(***************************************************************************)
(* Properties of the fact check and of the facade's choice of a detector.  *)
(***************************************************************************)
FactCallDone == call.entry \in {"is_factually_correct", "is_factually_correct_async"}

\* The GET did not give a JSON object under a success status.
CallFailed(outcome) ==
    \/ outcome.kind = "error"
    \/ outcome.status >= 400
    \/ ~outcome.json
    \/ outcome.shape # "object"

CorrectNoReason(verdict) == verdict.correct /\ ~verdict.reason.rated

\* C21: the fact check never raises; without a credential it sends no request and
\* answers correct with an empty reason; with one, a call that fails (transport
\* error, error status, unparsable body) and a response without claims are answered
\* correct with an empty reason.
C21_FactCheckFailsOpen ==
    FactCallDone =>
        /\ ~call.verdict.raised
        /\ call.api_key \in {"<unset>", ""} =>
               CorrectNoReason(call.verdict) /\ call.trace = <<>>
        /\ CallFailed(call.outcome) => CorrectNoReason(call.verdict)
        /\ (~CallFailed(call.outcome) /\ call.outcome.claims = <<>>) =>
               CorrectNoReason(call.verdict)

\* A request was sent with a credential, the service answered 500, and the text
\* counts as correct.
C21_Witness ==
    /\ FactCallDone
    /\ call.api_key = "AIza-key"
    /\ call.trace # <<>>
    /\ call.outcome.kind = "response" /\ call.outcome.status = 500
    /\ CorrectNoReason(call.verdict)

\* A fact check that got claims: a credential, a success status, a JSON object.
ClaimsReturned ==
    /\ FactCallDone
    /\ call.api_key \notin {"<unset>", ""}
    /\ ~CallFailed(call.outcome)
    /\ call.outcome.claims # <<>>

\* The rating of the review, lower-cased, contains one of the words.
RatingContains(review, words) ==
    /\ review.textualRating.kind = "string"
    /\ \E w \in words : Contains(Lower(review.textualRating.chars), w)

\* The reason names the rating of the review and its publisher.
ReasonNames(reason, review) ==
    /\ reason.rated
    /\ reason.rating = Lower(review.textualRating.chars)
    /\ reason.publisher = IF review.publisher = "<missing>" THEN "Unknown" ELSE review.publisher

Least(S) == CHOOSE i \in S : \A j \in S : i <= j

\* "false", "misleading", "fake", "debunked"
FalsityIndicators ==
    {<<"f", "a", "l", "s", "e">>, <<"m", "i", "s", "l", "e", "a", "d", "i", "n", "g">>,
     <<"f", "a", "k", "e">>, <<"d", "e", "b", "u", "n", "k", "e", "d">>}

\* C22 as stated: with claims returned, the result is not-correct when the rating of
\* any claim review contains "false", "misleading", "fake" or "debunked", the reason
\* naming the rating and publisher of the first such claim; it is correct with an
\* empty reason when no rating does.
C22_AnyDeniedReviewIsNotCorrect ==
    ClaimsReturned =>
        LET claims == call.outcome.claims
            denied(i) == {j \in DOMAIN claims[i].claimReview :
                             RatingContains(claims[i].claimReview[j], FalsityIndicators)}
            hits == {i \in DOMAIN claims : denied(i) # {}}
        IN  IF hits # {}
            THEN /\ ~call.verdict.correct
                 /\ \E j \in denied(Least(hits)) :
                        ReasonNames(call.verdict.reason, claims[Least(hits)].claimReview[j])
            ELSE CorrectNoReason(call.verdict)

\* C22 (amended): with claims returned, only the first review of each claim is read,
\* in response order.  The result is not-correct when the first such rating that
\* contains one of 'false', 'incorrect', 'misleading', 'fake', 'rumor', 'untrue',
\* 'error' is met before any rating that is null, and the reason names that rating,
\* lower-cased, and its publisher ('Unknown' when absent); otherwise the result is
\* correct with an empty reason.
C22_FirstReviewOnCodeList ==
    ClaimsReturned =>
        LET claims == call.outcome.claims
            read == {i \in DOMAIN claims : claims[i].claimReview # <<>>}
            hits == {i \in read :
                        RatingContains(claims[i].claimReview[1], Range(false_keywords))}
            nulls == {i \in read : claims[i].claimReview[1].textualRating.kind = "null"}
        IN  IF hits # {} /\ \A n \in nulls : Least(hits) < n
            THEN /\ ~call.verdict.correct
                 /\ ReasonNames(call.verdict.reason, claims[Least(hits)].claimReview[1])
            ELSE CorrectNoReason(call.verdict)

\* The first claim is rated True by its first review and False by its second, the
\* second claim "Mostly FALSE" by Snopes: the verdict cites the second claim.
C22_Witness ==
    /\ ClaimsReturned
    /\ Len(call.outcome.claims) = 2
    /\ Len(call.outcome.claims[1].claimReview) = 2
    /\ call.outcome.claims[1].claimReview[1].textualRating = RatingTrue
    /\ call.outcome.claims[1].claimReview[2].textualRating = RatingFalse
    /\ call.outcome.claims[2].claimReview = <<[textualRating |-> RatingMostlyFalse,
                                               publisher |-> "Snopes"]>>
    /\ ~call.verdict.correct
    /\ call.verdict.reason =
           Reason(<<"m", "o", "s", "t", "l", "y", " ", "f", "a", "l", "s", "e">>, "Snopes")

\* A facade was built by a caller, or by run_moderation, and has classified a text.
FacadeCallDone ==
    call.entry \in {"ToxicityDetector.analyze", "ToxicityDetector.analyze_async",
                    "run_moderation"}

\* The name the facade was configured with: the argument of the constructor, or the
\* value of MODERATION_METHOD for run_moderation.
Configured == IF call.entry = "run_moderation" THEN call.setting ELSE call.given

NotConfigured == Configured \in {"<omitted>", "<unset>"}

\* The Keyword Classifier classified the text and no remote call was made.
KeywordOnly ==
    /\ call.result.method = "keyword"
    /\ call.result = KeywordDetect(call.text)
    /\ call.trace = <<>>

\* The Remote Moderation Client ran: it called the provider when it had a
\* credential, and classified with the keywords, without a call, when it had none.
RemoteClientRan ==
    IF call.env.api_key = "sk-key"
    THEN /\ call.trace # <<>>
         /\ call.trace[1] = [op |-> "call", arg |-> 1]
         /\ call.env.script[1].kind = "response" => call.result.method = "openai_moderation"
    ELSE KeywordOnly

\* C23 as stated: a facade configured with an unknown name, or with none, classifies
\* with the Keyword Classifier and makes no remote call.
C23_UnsetMeansKeyword ==
    (FacadeCallDone /\ Configured \notin {"api", "keyword", "transformer"}) => KeywordOnly

\* C23 (amended): the facade dispatches on the configured name; an unknown name is
\* served by the Keyword Classifier without a remote call, while a facade built
\* without a method, and run_moderation without MODERATION_METHOD, use 'api', the
\* Remote Moderation Client.
C23_UnknownMeansKeywordUnsetMeansApi ==
    FacadeCallDone =>
        /\ Configured \in {"bogus", "", "keyword"} => KeywordOnly
        /\ Configured = "transformer" => call.result.method = "transformer" /\ call.trace = <<>>
        /\ (Configured = "api" \/ NotConfigured) => call.method = "api" /\ RemoteClientRan

\* run_moderation without MODERATION_METHOD, with a credential: the provider is
\* called and its verdict on a text without any keyword is returned.
C23_Witness ==
    /\ call.entry = "run_moderation"
    /\ call.setting = "<unset>"
    /\ call.env.api_key = "sk-key"
    /\ call.text = TextHello
    /\ call.trace = <<[op |-> "call", arg |-> 1]>>
    /\ call.result.method = "openai_moderation"
    /\ call.result.is_toxic

(***************************************************************************)
(* The attempt loop of the remote moderation client.                       *)
(***************************************************************************)
\* The trace holds a sleep right after the remote call of this attempt.
SleptAfter(attempt) ==
    \E i \in DOMAIN call.trace :
        /\ call.trace[i] = RemoteCall(attempt)
        /\ i + 1 \in DOMAIN call.trace
        /\ call.trace[i + 1].op = "sleep"

\* C24: the client makes attempt k+1 only after a rate-limit failure of attempt k
\* with k below 3; any other failure of attempt k (network, authentication,
\* malformed response) ends the loop with no sleep and no attempt k+1, and the
\* keyword result of the text is returned.
C24_RetryOnlyAfterRateLimit ==
    (ApiCallDone /\ call.env.api_key \notin {"<unset>", ""}) =>
        \A k \in CallsMade :
            /\ (k + 1 \in CallsMade \/ SleptAfter(k)) =>
                   IsHttp429(call.env.script[k]) /\ k < max_attempts
            /\ (~Succeeded(k) /\ ~IsHttp429(call.env.script[k])) =>
                   /\ k + 1 \notin CallsMade
                   /\ ~SleptAfter(k)
                   /\ call.result = KeywordDetect(call.text)

(***************************************************************************)
(* Order of the escalation, ordering of the side effects, timeouts.        *)
(***************************************************************************)
\* C25: a key goes through clean, warned once, warned twice and timed out,
\* terminated, in this order: the stream is stopped on behalf of a key only when a
\* StreamTimeout was issued for the key before, and a timeout is issued only when
\* a warning was issued for the key before.
C25_EscalationInOrder ==
    [][\A c \in Conns :
          /\ (Moved(c) /\ consumer[c].pc = "act" /\ consumer[c].new_count >= 3) =>
                 stream_timeouts[KeyOf(c)] # <<>>
          /\ Acting(c, 2) =>
                 \E i \in DOMAIN speech_violations[KeyOf(c)] :
                     speech_violations[KeyOf(c)][i].violation_type = "warning"]_vars

\* The message that tells the client what was decided on new_count = n.
EnforcementMessage(n) ==
    IF n = 1 THEN Message("speech_warning", 1, 0)
    ELSE IF n = 2 THEN Message("speech_timeout", 2, timeout_seconds)
    ELSE Message("stream_stopped", 0, 0)

\* C26: within a toxic utterance, the count is read before any write and fixes the
\* decision; when the SpeechViolation write is attempted, whether it succeeds or
\* fails, the enforcement message of that count is already the last message sent
\* to the client, and the write sends nothing.
C26_NotificationBeforeWrite ==
    [][\A c \in Conns :
          /\ (Moved(c) /\ consumer[c].pc = "count") =>
                 /\ consumer'[c].new_count = Len(speech_violations[KeyOf(c)]) + 1
                 /\ speech_violations' = speech_violations
          /\ (Moved(c) /\ consumer[c].pc = "act") =>
                 /\ consumer'[c].new_count = consumer[c].new_count
                 /\ speech_violations' = speech_violations
                 /\ Delivered(c, EnforcementMessage(consumer[c].new_count))
          /\ (Moved(c) /\ consumer[c].pc = "log") =>
                 /\ sent[c] # <<>>
                 /\ sent[c][Len(sent[c])] = EnforcementMessage(consumer[c].new_count)
                 /\ sent'[c] = sent[c]]_vars

\* The write of the row of a second violation failed (the key still has one row),
\* and the client holds speech_toxic and speech_timeout.
C26_Witness ==
    /\ consumer["c1"].pc = "done"
    /\ consumer["c1"].result.is_toxic
    /\ consumer["c1"].new_count = 2
    /\ Len(speech_violations[KeyOf("c1")]) = 1
    /\ sent["c1"] = <<Message("speech_toxic", 2, 0), Message("speech_timeout", 2, 60)>>

\* C27: timeouts lapse passively.  An utterance is gated (answered timeout_active
\* and not classified) exactly when a StreamTimeout of its key is active and
\* expires strictly later than now; otherwise it goes on to the classification.
\* No step changes or removes a StreamTimeout row, so the active flag is never
\* cleared: a timeout ends by the clock reaching expires_at, nothing else.
C27_TimeoutsLapsePassively ==
    [][/\ \A c \in Conns :
             Arriving(c) =>
                 IF ActiveTimeout(ArrivingKey(c))
                 THEN /\ consumer'[c].pc = "done"
                      /\ sent'[c] = <<Message("timeout_active", 0, 0)>>
                 ELSE /\ consumer'[c].pc = "moderate"
                      /\ sent'[c] = <<>>
       /\ \A k \in Keys :
             /\ Len(stream_timeouts'[k]) >= Len(stream_timeouts[k])
             /\ \A i \in DOMAIN stream_timeouts[k] :
                    stream_timeouts'[k][i] = stream_timeouts[k][i]]_vars

\* The timeout of the key has lapsed (the clock is at its expires_at and the row is
\* still flagged active), and the next toxic utterance of the key was classified and
\* escalated to the stream stop.
C27_Witness ==
    \E c \in Conns :
        /\ consumer[c].pc = "log"
        /\ consumer[c].new_count = 3
        /\ Len(stream_timeouts[KeyOf(c)]) = 1
        /\ stream_timeouts[KeyOf(c)][1].is_active
        /\ stream_timeouts[KeyOf(c)][1].expires_at = now
        /\ sent[c] = <<Message("speech_toxic", 3, 0), Message("stream_stopped", 0, 0)>>

\* The StreamTimeout rows of the key that are active and not yet expired.
UnexpiredTimeouts(k) ==
    {i \in DOMAIN stream_timeouts[k] :
        stream_timeouts[k][i].is_active /\ stream_timeouts[k][i].expires_at > now}

\* C28: in every reachable state a (user, stream) key has at most one StreamTimeout
\* that is active and expires later than now.
C28_AtMostOneActiveTimeout == \A k \in Keys : Cardinality(UnexpiredTimeouts(k)) <= 1

\* The key a step of c works for: the key named by the event c takes in, or the key
\* of the event c is processing.
StepKey(c) == IF consumer[c].pc = "idle" THEN ArrivingKey(c) ELSE KeyOf(c)

\* C29: utterances of different keys are independent.  A step of receive() for one
\* key changes no SpeechViolation and no StreamTimeout of any other key and sends
\* nothing to any other connection, and what it decides is read from the rows of
\* its own key only: the gate from the key's timeouts, the warning number from the
\* key's count.  Hence no interleaving with other keys changes what a key gets.
C29_KeysAreIndependent ==
    [][\A c \in Conns :
          Moved(c) =>
              /\ \A j \in Keys \ {StepKey(c)} :
                     /\ speech_violations'[j] = speech_violations[j]
                     /\ stream_timeouts'[j] = stream_timeouts[j]
              /\ \A d \in Conns \ {c} : sent'[d] = sent[d] /\ consumer'[d] = consumer[d]
              /\ Arriving(c) =>
                     (consumer'[c].pc = "done" <=> ActiveTimeout(StepKey(c)))
              /\ consumer[c].pc = "count" =>
                     consumer'[c].new_count = Len(speech_violations[StepKey(c)]) + 1]_vars

\* On one stream, a user has been timed out at the second violation while another
\* user, whose key has no row and no timeout, is being warned for the first.
C29_Witness ==
    \E c, d \in Conns :
        /\ consumer[c].stream_id = consumer[d].stream_id
        /\ consumer[c].user_id # consumer[d].user_id
        /\ consumer[c].pc = "done" /\ consumer[c].new_count = 2
        /\ Len(stream_timeouts[KeyOf(c)]) = 1
        /\ Len(speech_violations[KeyOf(c)]) = 2
        /\ consumer[d].pc = "act" /\ consumer[d].new_count = 1
        /\ speech_violations[KeyOf(d)] = <<>>
        /\ stream_timeouts[KeyOf(d)] = <<>>

(***************************************************************************)
(* The retry backoff and the utterances of other keys.                     *)
(***************************************************************************)
\* C30: while the classification of one utterance sleeps in its retry backoff, an
\* utterance of another key that waits for its classification is not blocked: its
\* run_moderation can start.
C30_BackoffBlocksNoOtherKey ==
    \A c, d \in Conns :
        ( /\ c # d
          /\ consumer[c].pc = "backoff"
          /\ consumer[d].pc = "moderate"
          /\ KeyOf(c) # KeyOf(d) )
        => ENABLED StartModeration(d)

(***************************************************************************)
(* Detected terms of the remote result, the model classifier, the two      *)
(* paths of the remote client.                                             *)
(***************************************************************************)
\* The names of the categories of a response whose score is strictly above the
\* threshold, the private attributes left out.
CategoryNamesAbove(response, threshold) ==
    {response.category_scores[i].name :
        i \in {j \in DOMAIN response.category_scores :
                  /\ response.category_scores[j].name \notin PrivateNames
                  /\ response.category_scores[j].score > threshold}}

\* C31: in a normalized remote result the detected words are the categories scored
\* strictly above 0.5 when the provider flagged the text, those scored strictly
\* above 0.7 when the text is toxic by the secondary threshold only, and none when
\* the result is not toxic.
C31_DetectedTermsByThreshold ==
    (ApiCallDone /\ call.result.method = "openai_moderation") =>
        LET response == NormalizedResponse
            detected == Range(call.result.detected_words)
        IN  /\ Len(call.result.detected_words) = Cardinality(detected)
            /\ IF response.flagged THEN detected = CategoryNamesAbove(response, 1500)
               ELSE IF call.result.is_toxic THEN detected = CategoryNamesAbove(response, 2100)
               ELSE detected = {}

\* A flagged response with scores 0.9 and 0.6: both categories are detected.
C31_Witness ==
    /\ ApiCallDone
    /\ call.result.method = "openai_moderation"
    /\ call.env.script[1] = Responded(ResponseFlagged)
    /\ call.result.is_toxic
    /\ call.result.detected_words = <<"harassment", "violence">>

\* A finished call of the facade with method "transformer".
TransformerCallDone ==
    call.entry \in {"analyze", "analyze_async"} /\ call.method = "transformer"

\* C32: the model classifier always returns a result.  When the pipeline was not
\* loaded, or the inference raises, the result is the keyword result of the text.
\* When the inference succeeds the result has method transformer, its score is the
\* score of the label "toxic" (0 when no label is "toxic") and it is toxic exactly
\* when that score is strictly above 0.5.
C32_ModelClassifierNeverFails ==
    TransformerCallDone =>
        LET model == call.env.model
            toxic == {i \in DOMAIN model.labels : model.labels[i].label \in {"toxic", "TOXIC"}}
        IN  /\ call.result.method \in {"keyword", "transformer"}
            /\ (~model.loaded \/ model.raises) => call.result = KeywordDetect(call.text)
            /\ (model.loaded /\ ~model.raises) =>
                   /\ call.result.method = "transformer"
                   /\ toxic = {} => call.result.toxicity_score = 0
                   /\ toxic # {} =>
                          \E i \in toxic : call.result.toxicity_score = model.labels[i].score
                   /\ call.result.is_toxic <=> call.result.toxicity_score > 1500

\* The inference raises on a text that holds a keyword: the keyword result is returned.
C32_Witness ==
    /\ TransformerCallDone
    /\ call.env.model = ModelRaises
    /\ call.text = TextKill
    /\ call.result.method = "keyword"
    /\ call.result.is_toxic

\* What the other path of the remote client gives for the inputs of the call:
\* detect_async for a call of detect, detect for a call of detect_async.
OtherPath ==
    IF call.entry = "analyze"
    THEN ApiDetectAsync(call.env.api_key, call.text, call.env.script)
    ELSE ApiDetect(call.env.api_key, call.text, call.env.script)

\* C33: the sync and the async path of the remote client are equivalent: with the
\* same credential and the same outcomes of the remote calls, both make the same
\* calls, wait the same delays in the same order, and return the same result.
C33_SyncAsyncEquivalent ==
    ApiCallDone =>
        /\ OtherPath.trace = call.trace
        /\ OtherPath.result = call.result

\* detect_async is rate limited, waits 1 second, meets a connection error and
\* falls back to the keywords, as detect does on the same outcomes.
C33_Witness ==
    /\ ApiCallDone
    /\ call.entry = "analyze_async"
    /\ call.env.api_key = "sk-key"
    /\ call.env.script[1] = Raised(TooManyRequestsError)
    /\ call.env.script[2] = Raised(ConnectionError)
    /\ call.trace = <<RemoteCall(1), Sleep(1), RemoteCall(2)>>
    /\ call.result.method = "keyword"
    /\ ApiDetect(call.env.api_key, call.text, call.env.script).trace = call.trace

(***************************************************************************)
(* Notifications and the stored state; ignored events; the ids of events.  *)
(***************************************************************************)
\* The step sends a message of this type to the client of c.
Sends(c, type) ==
    /\ Len(sent'[c]) = Len(sent[c]) + 1
    /\ sent'[c][Len(sent'[c])].type = type

\* After the step, the key has a StreamTimeout that is active and not expired.
ActiveTimeoutAfter(k) ==
    \E i \in DOMAIN stream_timeouts'[k] :
        stream_timeouts'[k][i].is_active /\ stream_timeouts'[k][i].expires_at > now'

\* C34 as stated: whenever speech_timeout is sent for a key, the key has an active
\* StreamTimeout that expires in the future, and whenever stream_stopped is sent the
\* stream is ended, also when the write fails or the stream does not exist.
C34_NotificationsAgreeWithState ==
    [][\A c \in Conns :
          /\ Sends(c, "speech_timeout") => ActiveTimeoutAfter(KeyOf(c))
          /\ Sends(c, "stream_stopped") =>
                 streams'[consumer[c].stream_id].status = "ended"]_vars

\* C34 (amended): the notification follows the decision, not the write.  When
\* issue_timeout stores its row, the key has an active unexpired StreamTimeout as
\* speech_timeout is sent; when stop_stream finds the stream and saves it, the
\* stream is ended as stream_stopped is sent.  When the write fails, or the stream
\* has no row, the failure is swallowed: the same notification is sent and no row
\* changes.
C34_NotificationsFollowDecision ==
    [][\A c \in Conns :
          /\ Acting(c, 2) =>
                 /\ Delivered(c, Message("speech_timeout", 2, timeout_seconds))
                 /\ \/ TimeoutIssued(c) /\ ActiveTimeoutAfter(KeyOf(c))
                    \/ NoRowChanged
          /\ (Moved(c) /\ consumer[c].pc = "act" /\ consumer[c].new_count >= 3) =>
                 /\ Delivered(c, Message("stream_stopped", 0, 0))
                 /\ \/ /\ streams[consumer[c].stream_id] # NoStream
                       /\ streams'[consumer[c].stream_id].status = "ended"
                    \/ NoRowChanged
                 /\ streams[consumer[c].stream_id] = NoStream => NoRowChanged
          /\ Sends(c, "speech_timeout") => Acting(c, 2)
          /\ Sends(c, "stream_stopped") => consumer[c].pc = "act" /\ consumer[c].new_count >= 3]_vars

\* The client was told its stream is stopped, and the stream named by its event
\* has no row.
C34_Witness ==
    /\ consumer["c1"].pc = "log"
    /\ consumer["c1"].new_count = 3
    /\ streams[consumer["c1"].stream_id] = NoStream
    /\ sent["c1"] = <<Message("speech_toxic", 3, 0), Message("stream_stopped", 0, 0)>>

\* c has taken in, and dropped, an event that parsed: its type is not
\* speech_transcript, or its transcript is empty once stripped.
Dropped(c) ==
    /\ consumer[c].pc = "done"
    /\ consumer[c].message_type # "<JSONDecodeError>"
    /\ consumer[c].user_id = ""

\* C35: an event whose type is not speech_transcript, or whose transcript is empty
\* or only whitespace, is dropped silently: it is neither checked for a timeout nor
\* classified, nothing is sent to its sender or to anyone else, and no
\* SpeechViolation, StreamTimeout or stream changes, up to the return of receive().
C35_IgnoredEventIsSilent ==
    [][\A c \in Conns :
          /\ (Moved(c) /\ consumer[c].pc = "idle" /\ Dropped(c)') =>
                 /\ sent'[c] = <<>>
                 /\ consumer'[c].result = NoResult
                 /\ \A d \in Conns \ {c} : sent'[d] = sent[d]
                 /\ NoRowChanged
          /\ (Moved(c) /\ Dropped(c)) =>
                 /\ consumer'[c].pc = "idle"
                 /\ sent'[c] = <<>>
                 /\ NoRowChanged]_vars

\* A speech_transcript event with a blank transcript was dropped without an answer
\* while a key is timed out: no timeout_active was sent for it.
C35_Witness ==
    \E c \in Conns :
        /\ Dropped(c)
        /\ consumer[c].message_type = "speech_transcript"
        /\ sent[c] = <<>>
        /\ \E k \in Keys : ActiveTimeout(k)

\* The key for which connect() opened connection c.
ScopeKey(c) == <<scope[c].user_id, scope[c].stream_id>>

\* C36: an utterance received on a connection opened for (stream S, user U) works
\* on the key (U, S) only: the key whose timeouts and count its steps read is
\* (U, S), and its steps change no SpeechViolation and no StreamTimeout of another
\* key and the status of no stream other than S, whatever user_id and stream_id
\* its payload names.
C36_OnlyTheConnectionsKey ==
    [][\A c \in Conns :
          Moved(c) =>
              /\ (Arriving(c) => ArrivingKey(c) = ScopeKey(c))
              /\ \A k \in Keys \ {ScopeKey(c)} :
                     /\ speech_violations'[k] = speech_violations[k]
                     /\ stream_timeouts'[k] = stream_timeouts[k]
              /\ \A s \in StreamIds \ {scope[c].stream_id} :
                     streams'[s] = streams[s]]_vars

=============================================================================
